---- MODULE Spec2Model ----
(***************************************************************************)
(* A model of the query runtime of cozo-core/src/runtime/db.rs: threads    *)
(* that share one Db handle and call run_script, the session transaction   *)
(* of a script, the running-query registry, the poison of every statement  *)
(* and the detached timeout timers.                                        *)
(*                                                                         *)
(* Every action is one step of a thread that touches shared state at most  *)
(* once (one lock window of the registry, one atomic operation, one call   *)
(* of the store), so that the interleavings of the model are those of the  *)
(* threads of the program.                                                 *)
(***************************************************************************)
EXTENDS Integers, Sequences, FiniteSets, TLC

\* Number of threads that submit the scripts of a workload on the shared handle.
NThreads == 2
\* Longest script, in statements.
MaxStmts == 2
\* Largest wall-clock reading (seconds since the epoch) a registration sees.
MaxTime == 1
\* Most tuples in the result of an evaluation, and the largest value in one.
MaxRows == 3
\* Largest key of a row of the stored relation.
MaxKey == 2

\* The threads of the callers of a workload, and one thread more, which
\* stays idle unless a specification gives it a part of its own.
Callers == 1..NThreads
Killer == NThreads + 1
Threads == Callers \cup {Killer}
Times == 0..MaxTime
\* The poison constructed for statement k of thread t is named <<t, k>>.
PoisonRefs == Threads \X (1..MaxStmts)
\* Running-query ids a ::kill may name: every id the other threads can be
\* given, and one that is never allocated.
KillIds == 0..((NThreads - 1) * MaxStmts)

\* The store-relation directive of a statement: none, or its RelationOp.
StoreOps == {"none", "Create", "Replace", "Put", "Rm", "Ensure", "EnsureNot"}

RECURSIVE SeqsUpTo(_, _)
SeqsUpTo(S, n) ==
    IF n = 0 THEN {<<>>}
    ELSE LET shorter == SeqsUpTo(S, n - 1)
         IN  shorter \cup {Append(s, x) : s \in {q \in shorter : Len(q) = n - 1}, x \in S}

\* What parse_script can return: a sequence of statements (each given by its
\* store-relation directive) or a system op.
MultiScripts(ops) == {[kind |-> "Multi", ps |-> ps] : ps \in SeqsUpTo(ops, MaxStmts) \ {<<>>}}
ListRunningOp == [kind |-> "Sys", op |-> "ListRunning"]
RemoveRelationOp == [kind |-> "Sys", op |-> "RemoveRelation"]
KillRunningOps == {[kind |-> "Sys", op |-> "KillRunning", id |-> i] : i \in KillIds}
NoScript == [kind |-> "none"]

(***************************************************************************)
(* A workload: the scripts the callers submit, whether statements carry a  *)
(* timeout, whether an evaluation may be one that never ends by itself,    *)
(* the readings of the wall clock, and the calls of collaborators (parser, *)
(* compiler, evaluator, store) that may fail.                              *)
(***************************************************************************)
AllFaults == {"parse", "transact", "compile", "set_timeout", "clock", "eval", "assert",
              "execute_relation", "commit", "del_range"}

\* Everything: every script, with and without timeouts, every failure.
FullLoad ==
    [scripts |-> MultiScripts(StoreOps) \cup {ListRunningOp, RemoveRelationOp}
                    \cup KillRunningOps,
     timeouts |-> BOOLEAN, endless |-> BOOLEAN, times |-> Times, faults |-> AllFaults]

\* Scripts that read and write the stored relation, and ::remove.
TxLoad ==
    [scripts |-> MultiScripts({"none", "Replace", "Put"}) \cup {RemoveRelationOp},
     timeouts |-> {FALSE}, endless |-> {FALSE}, times |-> {0},
     faults |-> {"eval", "execute_relation", "commit", "del_range"}]

\* Scripts of statements with every store-relation directive.
DirectiveLoad ==
    [scripts |-> MultiScripts(StoreOps),
     timeouts |-> {FALSE}, endless |-> {FALSE}, times |-> {0}, faults |-> {}]

\* Queries that may run long, with ::running and ::kill beside them.
RegLoad ==
    [scripts |-> MultiScripts({"none", "Replace"}) \cup {ListRunningOp} \cup KillRunningOps,
     timeouts |-> {FALSE}, endless |-> BOOLEAN, times |-> Times,
     faults |-> {"clock", "eval"}]

\* Queries that may run long, and the ::kill of the thread beside them.
QueryLoad ==
    [scripts |-> MultiScripts({"none"}),
     timeouts |-> {FALSE}, endless |-> BOOLEAN, times |-> {0}, faults |-> {"eval"}]
KillerLoad ==
    [scripts |-> KillRunningOps,
     timeouts |-> {FALSE}, endless |-> {FALSE}, times |-> {0}, faults |-> {}]

\* Queries that may run long, with and without a timeout.
TimerLoad ==
    [scripts |-> MultiScripts({"none"}),
     timeouts |-> BOOLEAN, endless |-> BOOLEAN, times |-> {0},
     faults |-> {"eval", "set_timeout"}]

VARIABLES
    store,              \* the committed key/value store of Db.db
    relation_store_id,  \* Db.relation_store_id
    queries_count,      \* Db.queries_count
    running_queries,    \* Db.running_queries: id -> RunningQueryHandle
    flag,               \* the AtomicBool of every Poison
    timer,              \* the detached thread of every Poison::set_timeout
    pc,                 \* where each thread is
    script,             \* what each thread's call was given (run_script: the parsed script)
    idx,                \* the statement of the script a thread is at
    tx,                 \* the SessionTx of each thread
    cleanups,           \* the ranges a thread has accumulated
    qid,                \* the running-query id of the statement in hand
    endless,            \* whether the evaluation in hand ever ends by itself
    pending,            \* the outcome run_query returns once its guard is dropped
    result,             \* what the call returned
    allocated,          \* history: the ids fetch_add has given, in that order
    registered,         \* history: <<poison, id, started_at>> of every handle inserted
    committed,          \* history: the threads whose commit_tx succeeded
    del_calls,          \* history: the del_range calls of each thread
    killing,            \* history: the ids ::kill answered KILLING for in mid-evaluation
    not_found,          \* history: the ids ::kill answered NOT_FOUND for
    evaluate_args,      \* history: the limit and offset each thread last gave the evaluator
    backup              \* the store of the Sqlite file of backup_db and restore_backup

vars == <<store, relation_store_id, queries_count, running_queries, flag, timer,
          pc, script, idx, tx, cleanups, qid, endless, pending, result,
          allocated, registered, committed, del_calls, killing, not_found, evaluate_args,
          backup>>

(***************************************************************************)
(* The store. Every key starts with the id of its relation; the catalog    *)
(* (relation id 0) maps the one relation name of the model, "r", to the id *)
(* of its handle. cat = 0 says that the catalog has no entry for "r". A    *)
(* row is <<relation id, <<thread, statement>> >>: the statement that      *)
(* wrote it.                                                               *)
(***************************************************************************)
EmptyStore == [cat |-> 0, rows |-> {}]
\* A store with the last relation id it persists: what a Db is opened on.
EmptyFile == [cat |-> 0, rows |-> {}, last_id |-> 0]

\* Tuple::default().encode_as_key(id) .. Tuple::default().encode_as_key(id.next())
Range(id) == <<id, id + 1>>
InRange(row, rg) == rg[1] <= row[1] /\ row[1] < rg[2]

\* Storage::del_range: outside every transaction, straight on the store.
DelRange(s, rg) == [s EXCEPT !.rows = {r \in s.rows : ~InRange(r, rg)}]

\* A SessionTx: the writes it buffers until commit_tx. cat = -1: the catalog
\* entry is not written by this transaction; cat = 0: it is deleted. rows are
\* the rows put, dels the keys <<relation id, key>> deleted.
NoTx == [open |-> FALSE, writable |-> FALSE, cat |-> -1, rows |-> {}, dels |-> {}]
NewTx(writable) ==
    [open |-> TRUE, writable |-> writable, cat |-> -1, rows |-> {}, dels |-> {}]

\* The rows of the store that the writes of the transaction leave as they are.
Untouched(t, s) ==
    {r \in s.rows : /\ <<r[1], r[2]>> \notin t.dels
                    /\ ~\E w \in t.rows : w[1] = r[1] /\ w[2] = r[2]}

\* What a read through the transaction sees: the store and its own writes.
ViewCat(t, s) == IF t.cat = -1 THEN s.cat ELSE t.cat
ViewRows(t, s) == Untouched(t, s) \cup t.rows
RelationExists(t, s) == ViewCat(t, s) # 0

\* commit_tx: the buffered writes reach the store in one step.
CommitTx(t, s) ==
    [cat |-> IF t.cat = -1 THEN s.cat ELSE t.cat, rows |-> Untouched(t, s) \cup t.rows]

\* StoreTx::put and StoreTx::del of the key of a relation.
TxPut(t, id, key, val) ==
    [t EXCEPT !.rows = {r \in @ : ~(r[1] = id /\ r[2] = key)} \cup {<<id, key, val>>},
              !.dels = @ \ {<<id, key>>}]
TxDel(t, id, key) ==
    [t EXCEPT !.rows = {r \in @ : ~(r[1] = id /\ r[2] = key)},
              !.dels = @ \cup {<<id, key>>}]

\* SessionTx::destroy_relation: the catalog entry goes, the range of the rows
\* is returned for the caller to delete after the commit.
DestroyRelation(t, s) ==
    [tx |-> [t EXCEPT !.cat = 0], bound |-> Range(ViewCat(t, s))]

\* SessionTx::execute_relation for one statement: the rows of the statement
\* (one row, tagged with the statement) go to the relation; Create and Replace
\* write them under a fresh relation id, Replace after destroying the old one.
\* Rm, Ensure and EnsureNot put no row.
ExecuteRelation(t, s, op, by, rsid) ==
    LET old == ViewCat(t, s)
        new == rsid + 1
    IN  IF op = "Put"
        THEN [tx |-> [t EXCEPT !.rows = @ \cup {<<old, by>>}],
              rsid |-> rsid, to_clear |-> <<>>]
        ELSE IF op \in {"Rm", "Ensure", "EnsureNot"}
        THEN [tx |-> t, rsid |-> rsid, to_clear |-> <<>>]
        ELSE [tx |-> [t EXCEPT !.cat = new, !.rows = @ \cup {<<new, by>>}],
              rsid |-> new,
              to_clear |-> IF op = "Replace" /\ old # 0 THEN <<Range(old)>> ELSE <<>>]

(***************************************************************************)
(* Results of run_script.                                                  *)
(***************************************************************************)
NoResult == [code |-> "none", rows |-> <<>>]
Ok(rows) == [code |-> "ok", rows |-> rows]
Err(code) == [code |-> code, rows |-> <<>>]
StatusRows(status) == <<<<status>>>>

\* The limit and the offset of a call of stratified_magic_evaluate; none yet.
NoArgs == [limit |-> <<>>, offset |-> <<>>]

\* What run_query returns: its result and the ranges to clean up.
NoPending == [res |-> "none", clean_ups |-> <<>>]

(***************************************************************************)
(* The running-query registry.                                             *)
(***************************************************************************)
RunningQueryHandle(started_at, poison) == [started_at |-> started_at, poison |-> poison]

\* MapInsert, the entry not stored.
MapInsertNothing(map, k, v) == map

\* BTreeMap::insert
MapInsert(map, k, v) == [i \in DOMAIN map \cup {k} |-> IF i = k THEN v ELSE map[i]]
\* BTreeMap::remove
MapRemove(map, k) == [i \in DOMAIN map \ {k} |-> map[i]]

\* format!("{:?}", started_at): the text of the f64.
FormatDebug(x) == <<"f64", x>>

\* Db::list_running: one row per entry, in the order of the keys.
RECURSIVE RowsInKeyOrder(_, _)
RowsInKeyOrder(map, keys) ==
    IF keys = {} THEN <<>>
    ELSE LET k == CHOOSE x \in keys : \A y \in keys : x <= y
         IN  <<<<k, FormatDebug(map[k].started_at)>>>> \o RowsInKeyOrder(map, keys \ {k})
\* list_running, giving the entry of the least key only.
list_running_first(map) ==
    RowsInKeyOrder(map, {k \in DOMAIN map : \A y \in DOMAIN map : k <= y})

list_running(map) == RowsInKeyOrder(map, DOMAIN map)

\* KillRunning, taking the entry out of the registry as it sets the poison.
KillRunningRemoving(map, flags, id) ==
    IF id \in DOMAIN map
    THEN [status |-> "KILLING", map |-> MapRemove(map, id),
          flags |-> [flags EXCEPT ![map[id].poison] = TRUE]]
    ELSE [status |-> "NOT_FOUND", map |-> map, flags |-> flags]

\* KillRunning, setting the poison of every entry when it finds its own.
KillRunningAll(map, flags, id) ==
    IF id \in DOMAIN map
    THEN [status |-> "KILLING", map |-> map,
          flags |-> [p \in DOMAIN flags |->
                        flags[p] \/ \E i \in DOMAIN map : map[i].poison = p]]
    ELSE [status |-> "NOT_FOUND", map |-> map, flags |-> flags]

\* SysOp::KillRunning under the lock: the status, and the flags afterwards.
KillRunning(map, flags, id) ==
    IF id \in DOMAIN map
    THEN [status |-> "KILLING", map |-> map, flags |-> [flags EXCEPT ![map[id].poison] = TRUE]]
    ELSE [status |-> "NOT_FOUND", map |-> map, flags |-> flags]

\* GuardDropped, leaving the entry in the registry.
GuardDroppedKeeping(map, flags, id) ==
    IF id \in DOMAIN map
    THEN [map |-> map, flags |-> [flags EXCEPT ![map[id].poison] = TRUE]]
    ELSE [map |-> map, flags |-> flags]

\* GuardDropped, clearing the poison of the entry it removes.
GuardDroppedClearing(map, flags, id) ==
    IF id \in DOMAIN map
    THEN [map |-> MapRemove(map, id), flags |-> [flags EXCEPT ![map[id].poison] = FALSE]]
    ELSE [map |-> map, flags |-> flags]

\* RunningQueryCleanup::drop under the lock.
GuardDropped(map, flags, id) ==
    IF id \in DOMAIN map
    THEN [map |-> MapRemove(map, id), flags |-> [flags EXCEPT ![map[id].poison] = TRUE]]
    ELSE [map |-> map, flags |-> flags]

\* AtomicU64::fetch_add(1): the value before, and the value after. The counter
\* wraps after 2^64 additions, which no run of NThreads * MaxStmts statements
\* comes near (and which the 32-bit integers of TLC cannot hold).
FetchAddStale(c) == [old |-> c, new |-> c]
FetchAdd(c) == [old |-> c, new |-> c + 1]

\* is_write taken from the first statement alone.
IsWriteFirst(ps) == ps[1] # "none"

\* IsWrite, looking at the last statement only.
IsWriteLast(ps) == ps[Len(ps)] # "none"

\* ps.iter().any(|p| p.out_opts.store_relation.is_some())
IsWrite(ps) == \E k \in 1..Len(ps) : ps[k] # "none"

\* Db::new, and threads that have not called yet; what they will be given
\* apart.
\* No query runs and no call is under way.
InitRun ==
    /\ queries_count = 0
    /\ running_queries = <<>>
    /\ flag = [r \in PoisonRefs |-> FALSE]
    /\ timer = [r \in PoisonRefs |-> "none"]
    /\ pc = [t \in Threads |-> "idle"]
    /\ idx = [t \in Threads |-> 0]
    /\ tx = [t \in Threads |-> NoTx]
    /\ cleanups = [t \in Threads |-> <<>>]
    /\ qid = [t \in Threads |-> -1]
    /\ endless = [t \in Threads |-> FALSE]
    /\ pending = [t \in Threads |-> NoPending]
    /\ result = [t \in Threads |-> NoResult]
    /\ allocated = <<>>
    /\ registered = {}
    /\ committed = {}
    /\ del_calls = [t \in Threads |-> 0]
    /\ killing = {}
    /\ not_found = {}
    /\ evaluate_args = [t \in Threads |-> NoArgs]

\* A database without a relation.
InitDb ==
    /\ store = EmptyStore
    /\ relation_store_id = 0
    /\ backup = EmptyFile
    /\ InitRun

Init ==
    /\ InitDb
    /\ script = [t \in Threads |-> NoScript]

\* The state all threads share, and the histories.
db == <<store, relation_store_id, queries_count, running_queries, flag, timer>>
history ==
    <<allocated, registered, committed, del_calls, killing, not_found, evaluate_args>>

\* Thread t goes to l.
Goto(t, l) == pc' = [pc EXCEPT ![t] = l]

\* run_script returns r: the locals of the call are gone, and with them its
\* session if it was not committed.
Finish(t, r) ==
    /\ pc' = [pc EXCEPT ![t] = "done"]
    /\ result' = [result EXCEPT ![t] = r]
    /\ tx' = [tx EXCEPT ![t] = NoTx]
    /\ script' = [script EXCEPT ![t] = NoScript]
    /\ idx' = [idx EXCEPT ![t] = 0]
    /\ cleanups' = [cleanups EXCEPT ![t] = <<>>]
    /\ qid' = [qid EXCEPT ![t] = -1]
    /\ endless' = [endless EXCEPT ![t] = FALSE]
    /\ pending' = [pending EXCEPT ![t] = NoPending]

\* run_script is called: parse_script fails, or gives a script or a system op.
Start(t, W) ==
    /\ pc[t] = "idle"
    /\ \/ /\ "parse" \in W.faults
          /\ Finish(t, Err("parse_error"))
       \/ /\ \E s \in W.scripts :
               /\ script' = [script EXCEPT ![t] = s]
               /\ Goto(t, IF s.kind = "Multi" THEN "open"
                          ELSE IF s.op = "ListRunning" THEN "sys_list"
                          ELSE IF s.op = "KillRunning" THEN "sys_kill"
                          ELSE "rm_open")
          /\ UNCHANGED <<tx, result, idx, cleanups, qid, endless, pending>>
    /\ UNCHANGED <<db, history, backup>>

\* do_run_script: the mode of the session, and the session.
Open(t, W) ==
    /\ pc[t] = "open"
    /\ \/ /\ "transact" \in W.faults
          /\ Finish(t, Err("transact_error"))
       \/ /\ tx' = [tx EXCEPT ![t] = NewTx(IsWrite(script[t].ps))]
          /\ idx' = [idx EXCEPT ![t] = 1]
          /\ Goto(t, "preflight")
          /\ UNCHANGED <<result, script, cleanups, qid, endless, pending>>
    /\ UNCHANGED <<db, history, backup>>

\* The statement of its script thread t is at, and the poison of that statement.
Stmt(t) == script[t].ps[idx[t]]
\* PoisonOf, one poison for all the statements of a script.
PoisonOfScript(t) == <<t, 1>>

PoisonOf(t) == <<t, idx[t]>>

\* SessionTx::get_relation: fails when the catalog has no such relation.
GetRelationFails(t, s) == ~RelationExists(t, s)

\* PreflightCheck, letting Create through when the relation exists.
PreflightCheckNoConflict(op, t, s, compatible) ==
    IF op \in {"none", "Create", "Replace"} THEN "ok"
    ELSE IF GetRelationFails(t, s) THEN "get_relation_error"
    ELSE IF ~RelationExists(t, s) THEN "eval::stored_relation_not_found"
    ELSE IF ~compatible THEN "incompatible_relation"
    ELSE "ok"

\* PreflightCheck, looking at Create only.
PreflightCheckCreateOnly(op, t, s, compatible) ==
    IF op = "Create" /\ RelationExists(t, s) THEN "eval::stored_relation_conflict" ELSE "ok"

\* run_query, the pre-flight of the store-relation directive: "ok" or the error.
\* compatible: what ensure_compatible finds for the directive's metadata.
PreflightCheck(op, t, s, compatible) ==
    IF op = "none" THEN "ok"
    ELSE IF op = "Create"
    THEN IF RelationExists(t, s) THEN "eval::stored_relation_conflict" ELSE "ok"
    ELSE IF op # "Replace"
    THEN IF GetRelationFails(t, s) THEN "get_relation_error"
         ELSE IF ~RelationExists(t, s) THEN "eval::stored_relation_not_found"
         ELSE IF ~compatible THEN "incompatible_relation"
         ELSE "ok"
    ELSE "ok"

\* run_query returns an error before a guard exists: do_run_script returns it.
Preflight(t) ==
    /\ pc[t] = "preflight"
    /\ \E compatible \in BOOLEAN :
          LET r == PreflightCheck(Stmt(t), tx[t], store, compatible)
          IN  IF r = "ok"
              THEN /\ Goto(t, "compile")
                   /\ UNCHANGED <<tx, result, script, idx, cleanups, qid, endless, pending>>
              ELSE Finish(t, Err(r))
    /\ UNCHANGED <<db, history, backup>>

\* Poison::set_timeout: the detached thread that will set the flag.
SetTimeout(timers, poison) == [timers EXCEPT ![poison] = "armed"]

\* run_query: normalize, stratify, rewrite and compile; then the fresh poison
\* of the statement, armed when the statement has a timeout (a build without
\* threads fails set_timeout).
Compile(t, W) ==
    /\ pc[t] = "compile"
    /\ \/ /\ "compile" \in W.faults
          /\ Finish(t, Err("compile_error"))
          /\ UNCHANGED timer
       \/ /\ "set_timeout" \in W.faults /\ TRUE \in W.timeouts
          /\ Finish(t, Err("set_timeout_error"))
          /\ UNCHANGED timer
       \/ /\ \E timeout \in W.timeouts :
               timer' = IF timeout THEN SetTimeout(timer, PoisonOf(t)) ELSE timer
          /\ Goto(t, "alloc")
          /\ UNCHANGED <<tx, result, script, idx, cleanups, qid, endless, pending>>
    /\ UNCHANGED <<store, relation_store_id, queries_count, running_queries, flag,
                   history, backup>>

\* run_query: self.queries_count.fetch_add(1, AcqRel)
Alloc(t) ==
    /\ pc[t] = "alloc"
    /\ LET r == FetchAdd(queries_count)
       IN  /\ qid' = [qid EXCEPT ![t] = r.old]
           /\ queries_count' = r.new
           /\ allocated' = Append(allocated, r.old)
    /\ Goto(t, "insert")
    /\ UNCHANGED <<store, relation_store_id, running_queries, flag, timer,
                   script, idx, tx, cleanups, endless, pending, result, registered,
                   committed, del_calls, killing, not_found,
                   evaluate_args, backup>>

\* run_query: the wall clock is read (and may lie before the epoch, an error),
\* then the handle is inserted under the lock and the guard exists.
Insert(t, W) ==
    /\ pc[t] = "insert"
    /\ \/ /\ "clock" \in W.faults
          /\ Finish(t, Err("clock_error"))
          /\ UNCHANGED <<running_queries, registered>>
       \/ /\ \E now \in W.times :
               /\ running_queries' =
                     MapInsert(running_queries, qid[t], RunningQueryHandle(now, PoisonOf(t)))
               /\ registered' = registered \cup {<<PoisonOf(t), qid[t], now>>}
          /\ \E e \in W.endless : endless' = [endless EXCEPT ![t] = e]
          /\ Goto(t, "eval")
          /\ UNCHANGED <<tx, result, script, idx, cleanups, qid, pending>>
    /\ UNCHANGED <<store, relation_store_id, queries_count, flag, timer, allocated,
                   committed, del_calls, killing, not_found,
                   evaluate_args, backup>>

\* A check that never sees the flag.
CheckNever(flags, poison) == "ok"

\* Check, failing whether the flag is set or not.
CheckAlways(flags, poison) == "eval::killed"

\* Poison::check
Check(flags, poison) == IF flags[poison] THEN "eval::killed" ELSE "ok"

\* run_query returns r: first its guard is dropped.
Return(t, r) ==
    /\ pending' = [pending EXCEPT ![t] = r]
    /\ endless' = [endless EXCEPT ![t] = FALSE]
    /\ Goto(t, "drop")

QueryErr(code) == [res |-> code, clean_ups |-> <<>>]
QueryOk(clean_ups) == [res |-> "ok", clean_ups |-> clean_ups]

\* stratified_magic_evaluate, from one probe of the poison to the next: the
\* probe fails, or the evaluation goes on; an evaluation that is not endless
\* may also finish or fail at this point. An evaluation that has finished is
\* past its last probe: it is at the assertion.
Evaluate(t, W) ==
    /\ pc[t] = "eval"
    /\ IF Check(flag, PoisonOf(t)) # "ok"
       THEN Return(t, QueryErr(Check(flag, PoisonOf(t))))
       ELSE /\ ~endless[t]
            /\ \/ /\ "eval" \in W.faults
                  /\ Return(t, QueryErr("eval_error"))
               \/ /\ Goto(t, "assert")
                  /\ endless' = [endless EXCEPT ![t] = FALSE]
                  /\ UNCHANGED pending
    /\ UNCHANGED <<db, history, backup, script, idx, tx, cleanups, qid, result>>

(***************************************************************************)
(* run_query once the evaluation has returned: the assertion, then the     *)
(* rows to give out. A tuple is the value of its sort column; the result   *)
(* of an evaluation is a relation (no tuple twice) in the order of its     *)
(* scan.                                                                   *)
(***************************************************************************)
\* Option<T>
None == <<>>
Some(x) == <<x>>
Options(S) == {None} \cup {Some(x) : x \in S}
UnwrapOr(o, d) == IF o = None THEN d ELSE o[1]

Values == 1..MaxRows
Relations ==
    {q \in SeqsUpTo(Values, MaxRows) : \A i, j \in 1..Len(q) : i # j => q[i] # q[j]}

\* Iterator::skip and Iterator::take
Skip(q, n) == IF n >= Len(q) THEN <<>> ELSE SubSeq(q, n + 1, Len(q))
Take(q, n) == IF n >= Len(q) THEN q ELSE SubSeq(q, 1, n)

\* out_opts.assertion
Assertions == {"none", "AssertNone", "AssertSome"}

\* AssertionCheck, AssertNone carrying the last tuple of the scan.
AssertionCheckLast(assertion, scan_all) ==
    IF assertion = "AssertNone" /\ scan_all # <<>>
    THEN [code |-> "eval::assert_none_failure", rows |-> <<scan_all[Len(scan_all)]>>]
    ELSE IF assertion = "AssertSome" /\ scan_all = <<>>
    THEN [code |-> "eval::assert_some_failure", rows |-> <<>>]
    ELSE [code |-> "ok", rows |-> <<>>]

\* The assertion against result.scan_all(): "ok", or the failure and the
\* tuple it carries.
AssertionCheck(assertion, scan_all) ==
    IF assertion = "AssertNone" /\ scan_all # <<>>
    THEN [code |-> "eval::assert_none_failure", rows |-> <<Head(scan_all)>>]
    ELSE IF assertion = "AssertSome" /\ scan_all = <<>>
    THEN [code |-> "eval::assert_some_failure", rows |-> <<>>]
    ELSE [code |-> "ok", rows |-> <<>>]

\* Assertion, with execute_relation done before the assertion is looked at.
AssertionAfterExecute(t, W) ==
    /\ pc[t] = "assert"
    /\ Stmt(t) # "none"
    /\ LET r == ExecuteRelation(tx[t], store, Stmt(t), PoisonOf(t), relation_store_id)
       IN  /\ tx' = [tx EXCEPT ![t] = r.tx]
           /\ relation_store_id' = r.rsid
           /\ Return(t, QueryErr("eval::assert_some_failure"))
    /\ UNCHANGED <<store, queries_count, running_queries, flag, timer, history, backup,
                   script, idx, cleanups, qid, result>>

\* run_query: the assertion of the statement, if any, against the result.
Assertion(t, W) ==
    /\ pc[t] = "assert"
    /\ \E assertion \in (IF "assert" \in W.faults THEN Assertions ELSE {"none"}),
          scan_all \in {<<>>, <<1>>} :
          LET c == AssertionCheck(assertion, scan_all)
          IN  IF c.code = "ok"
              THEN /\ Goto(t, "output")
                   /\ UNCHANGED <<pending, endless>>
              ELSE Return(t, QueryErr(c.code))
    /\ UNCHANGED <<db, history, backup, script, idx, tx, cleanups, qid, result>>

\* SessionTx::sort_and_collect by the one sorter of the one column.
RECURSIVE SortAndCollect(_, _)
SortAndCollect(rows, dir) ==
    IF rows = <<>> THEN <<>>
    ELSE LET S == {rows[i] : i \in 1..Len(rows)}
             first == CHOOSE x \in S : \A y \in S : IF dir = "asc" THEN x <= y ELSE x >= y
         IN  <<first>> \o SortAndCollect(SelectSeq(rows, LAMBDA r : r # first), dir)

\* OutputRows, the offset and the limit taken from the early-return scan too.
OutputRowsPaginatingEarly(q, res) ==
    IF q.sorters # <<>>
    THEN LET sorted_result == SortAndCollect(res.all, q.sorters[1])
             skipped == IF q.offset # None THEN Skip(sorted_result, q.offset[1])
                        ELSE sorted_result
         IN  IF q.limit # None THEN Take(skipped, q.limit[1]) ELSE skipped
    ELSE LET scan == IF res.early_return THEN res.early ELSE res.all
         IN  IF q.limit # None \/ q.offset # None
             THEN Take(Skip(scan, UnwrapOr(q.offset, 0)), UnwrapOr(q.limit, MaxRows))
             ELSE scan

\* OutputRows, the limit taken from the result before it is sorted.
OutputRowsLimitFirst(q, res) ==
    IF q.sorters # <<>>
    THEN LET taken == IF q.limit # None THEN Take(res.all, q.limit[1]) ELSE res.all
             sorted_result == SortAndCollect(taken, q.sorters[1])
         IN  IF q.offset # None THEN Skip(sorted_result, q.offset[1]) ELSE sorted_result
    ELSE IF res.early_return THEN res.early
    ELSE IF q.limit # None \/ q.offset # None
    THEN Take(Skip(res.all, UnwrapOr(q.offset, 0)), UnwrapOr(q.limit, MaxRows))
    ELSE res.all

\* The rows run_query gives out, or hands to execute_relation.
OutputRows(q, res) ==
    IF q.sorters # <<>>
    THEN LET sorted_result == SortAndCollect(res.all, q.sorters[1])
             skipped == IF q.offset # None THEN Skip(sorted_result, q.offset[1])
                        ELSE sorted_result
         IN  IF q.limit # None THEN Take(skipped, q.limit[1]) ELSE skipped
    ELSE IF res.early_return THEN res.early
    ELSE IF q.limit # None \/ q.offset # None
    THEN \* usize::MAX is more than any result has: MaxRows stands for it
         Take(Skip(res.all, UnwrapOr(q.offset, 0)), UnwrapOr(q.limit, MaxRows))
    ELSE res.all

\* run_query from the assertion on, for a statement without a directive.
QueryTail(q, res) ==
    LET c == AssertionCheck(q.assertion, res.all)
    IN  IF c.code # "ok" THEN c ELSE Ok(OutputRows(q, res))

\* The out_opts of a statement, and what an evaluation can return for it.
OutOpts ==
    [assertion : Assertions, sorters : {<<>>, <<"asc">>, <<"desc">>},
     offset : Options(0..MaxRows), limit : Options(0..MaxRows)]
\* all: what scan_all gives; early: what scan_early_returned gives when the
\* evaluation has declared its answer complete early, a stretch of the result.
Slices(a) == {Take(Skip(a, o), l) : o \in 0..Len(a), l \in 0..Len(a)}
EvalResults ==
    {[all |-> a, early_return |-> FALSE, early |-> <<>>] : a \in Relations}
    \cup UNION {{[all |-> a, early_return |-> TRUE, early |-> r] : r \in Slices(a)} :
                    a \in Relations}
Queries ==
    {[kind |-> "Query", out_opts |-> q, res |-> res] : q \in OutOpts, res \in EvalResults}

\* QueryOutOptions::num_to_take
NumToTake(q) == q.limit

\* EvaluateArgs, the limit and the offset pushed down whatever the sorters.
EvaluateArgsAlways(q) == [limit |-> NumToTake(q), offset |-> q.offset]

\* The limit and the offset run_query hands to stratified_magic_evaluate.
EvaluateArgs(q) ==
    [limit |-> IF q.sorters = <<>> THEN NumToTake(q) ELSE None,
     offset |-> IF q.sorters = <<>> THEN q.offset ELSE None]

\* run_query hands the query to the evaluator, which returns the result
\* script[t].res, and gives the caller the outcome.
RunQueryTail(t) ==
    /\ pc[t] = "idle"
    /\ script[t].kind = "Query"
    /\ evaluate_args' = [evaluate_args EXCEPT ![t] = EvaluateArgs(script[t].out_opts)]
    /\ pc' = [pc EXCEPT ![t] = "done"]
    /\ result' = [result EXCEPT ![t] = QueryTail(script[t].out_opts, script[t].res)]
    /\ UNCHANGED <<db, allocated, registered, committed, del_calls, killing, not_found,
                   backup, script, idx, tx, cleanups, qid, endless, pending>>

\* What execute_relation cannot do: create a relation that exists by now, or
\* put into, remove from or check one that is gone by now.
ExecuteRelationFails(op, t, s) ==
    IF op = "Create" THEN RelationExists(t, s)
    ELSE IF op = "Replace" THEN FALSE
    ELSE GetRelationFails(t, s)

\* run_query: the rows go to the stored relation (execute_relation, which may
\* fail) or to the caller.
Output(t, W) ==
    /\ pc[t] = "output"
    /\ IF Stmt(t) = "none"
       THEN /\ Return(t, QueryOk(<<>>))
            /\ UNCHANGED <<tx, relation_store_id>>
       ELSE \/ /\ \/ "execute_relation" \in W.faults
                  \/ ExecuteRelationFails(Stmt(t), tx[t], store)
               /\ Return(t, QueryErr("execute_relation_error"))
               /\ UNCHANGED <<tx, relation_store_id>>
            \/ /\ ~ExecuteRelationFails(Stmt(t), tx[t], store)
               /\ LET r == ExecuteRelation(tx[t], store, Stmt(t), PoisonOf(t),
                                           relation_store_id)
                  IN  /\ tx' = [tx EXCEPT ![t] = r.tx]
                      /\ relation_store_id' = r.rsid
                      /\ Return(t, QueryOk(r.to_clear))
    /\ UNCHANGED <<store, queries_count, running_queries, flag, timer, history, backup,
                   script, idx, cleanups, qid, result>>

\* AfterQuery, with a session of its own for every statement.
AfterQueryFreshSession(t, r) ==
    IF r.res = "ok"
    THEN /\ cleanups' = [cleanups EXCEPT ![t] = @ \o r.clean_ups]
         /\ IF idx[t] < Len(script[t].ps)
            THEN /\ idx' = [idx EXCEPT ![t] = @ + 1]
                 /\ tx' = [tx EXCEPT ![t] = NewTx(tx[t].writable)]
                 /\ Goto(t, "preflight")
            ELSE /\ Goto(t, "commit")
                 /\ UNCHANGED <<idx, tx>>
         /\ pending' = [pending EXCEPT ![t] = NoPending]
         /\ UNCHANGED <<result, script, qid, endless>>
    ELSE Finish(t, Err(r.res))

\* do_run_script once run_query has returned r: the next statement, the
\* commit, or the error.
AfterQuery(t, r) ==
    IF r.res = "ok"
    THEN /\ cleanups' = [cleanups EXCEPT ![t] = @ \o r.clean_ups]
         /\ IF idx[t] < Len(script[t].ps)
            THEN /\ idx' = [idx EXCEPT ![t] = @ + 1]
                 /\ Goto(t, "preflight")
            ELSE /\ Goto(t, "commit")
                 /\ UNCHANGED idx
         /\ pending' = [pending EXCEPT ![t] = NoPending]
         /\ UNCHANGED <<tx, result, script, qid, endless>>
    ELSE Finish(t, Err(r.res))

\* run_query returns: the guard is dropped, and do_run_script goes on.
GuardDrop(t) ==
    /\ pc[t] = "drop"
    /\ LET g == GuardDropped(running_queries, flag, qid[t])
       IN  /\ running_queries' = g.map
           /\ flag' = g.flags
    /\ AfterQuery(t, pending[t])
    /\ UNCHANGED <<store, relation_store_id, queries_count, timer, history, backup>>

\* Commit, with the writes applied although commit_tx reports a failure.
CommitLeaky(t, W) ==
    /\ pc[t] = "commit"
    /\ store' = CommitTx(tx[t], store)
    /\ \/ /\ "commit" \in W.faults
          /\ Finish(t, Err("commit_error"))
          /\ UNCHANGED committed
       \/ /\ committed' = committed \cup {t}
          /\ tx' = [tx EXCEPT ![t] = NoTx]
          /\ Goto(t, "cleanup")
          /\ UNCHANGED <<result, script, idx, cleanups, qid, endless, pending>>
    /\ UNCHANGED <<relation_store_id, queries_count, running_queries, flag, timer,
                   allocated, registered, del_calls, killing, not_found,
                   evaluate_args, backup>>

\* Commit, going on to the cleanup although commit_tx failed.
CommitIgnoringFailure(t, W) ==
    /\ pc[t] = "commit"
    /\ \/ /\ "commit" \in W.faults
          /\ UNCHANGED <<store, committed>>
       \/ /\ store' = CommitTx(tx[t], store)
          /\ committed' = committed \cup {t}
    /\ tx' = [tx EXCEPT ![t] = NoTx]
    /\ Goto(t, "cleanup")
    /\ UNCHANGED <<result, script, idx, cleanups, qid, endless, pending>>
    /\ UNCHANGED <<relation_store_id, queries_count, running_queries, flag, timer,
                   allocated, registered, del_calls, killing, not_found,
                   evaluate_args, backup>>

\* do_run_script: commit_tx, for a read-only session too; the session ends.
\* A read-only session that has ranges to clean up panics on the assertion.
Commit(t, W) ==
    /\ pc[t] = "commit"
    /\ \/ /\ "commit" \in W.faults
          /\ Finish(t, Err("commit_error"))
          /\ UNCHANGED <<store, committed>>
       \/ /\ store' = CommitTx(tx[t], store)
          /\ committed' = committed \cup {t}
          /\ IF ~tx[t].writable /\ cleanups[t] # <<>>
             THEN Finish(t, Err("panic"))
             ELSE /\ tx' = [tx EXCEPT ![t] = NoTx]
                  /\ Goto(t, "cleanup")
                  /\ UNCHANGED <<result, script, idx, cleanups, qid, endless, pending>>
    /\ UNCHANGED <<relation_store_id, queries_count, running_queries, flag, timer,
                   allocated, registered, del_calls, killing, not_found,
                   evaluate_args, backup>>

\* DelRanges, going on to the next range when del_range fails.
DelRangesGoingOn(t, W, res) ==
    /\ IF cleanups[t] = <<>>
       THEN /\ Finish(t, res)
            /\ UNCHANGED <<store, del_calls>>
       ELSE /\ del_calls' = [del_calls EXCEPT ![t] = @ + 1]
            /\ cleanups' = [cleanups EXCEPT ![t] = Tail(@)]
            /\ UNCHANGED <<pc, result, tx, script, idx, qid, endless, pending>>
            /\ \/ store' = DelRange(store, Head(cleanups[t]))
               \/ /\ "del_range" \in W.faults
                  /\ UNCHANGED store
    /\ UNCHANGED <<relation_store_id, queries_count, running_queries, flag, timer,
                   allocated, registered, committed, killing, not_found,
                   evaluate_args, backup>>

\* After the commit: del_range for the next range, which may fail; the result
\* once no range is left.
DelRanges(t, W, res) ==
    /\ IF cleanups[t] = <<>>
       THEN /\ Finish(t, res)
            /\ UNCHANGED <<store, del_calls>>
       ELSE /\ del_calls' = [del_calls EXCEPT ![t] = @ + 1]
            /\ \/ /\ store' = DelRange(store, Head(cleanups[t]))
                  /\ cleanups' = [cleanups EXCEPT ![t] = Tail(@)]
                  /\ UNCHANGED <<pc, result, tx, script, idx, qid, endless, pending>>
               \/ /\ "del_range" \in W.faults
                  /\ Finish(t, Err("del_range_error"))
                  /\ UNCHANGED store
    /\ UNCHANGED <<relation_store_id, queries_count, running_queries, flag, timer,
                   allocated, registered, committed, killing, not_found,
                   evaluate_args, backup>>

\* do_run_script: the post-commit cleanup, then Ok(res).
Cleanup(t, W) ==
    /\ pc[t] = "cleanup"
    /\ DelRanges(t, W, Ok(<<>>))

\* SysOp::ListRunning
SysListRunning(t) ==
    /\ pc[t] = "sys_list"
    /\ Finish(t, Ok(list_running(running_queries)))
    /\ UNCHANGED <<db, history, backup>>

\* The statement registered under id is in stratified_magic_evaluate.
Evaluating(id) == \E u \in Threads : pc[u] = "eval" /\ qid[u] = id

\* SysOp::KillRunning(id)
SysKillRunning(t) ==
    /\ pc[t] = "sys_kill"
    /\ LET r == KillRunning(running_queries, flag, script[t].id)
       IN  /\ running_queries' = r.map
           /\ flag' = r.flags
           /\ Finish(t, Ok(StatusRows(r.status)))
           /\ killing' = IF r.status = "KILLING" /\ Evaluating(script[t].id)
                         THEN killing \cup {script[t].id} ELSE killing
           /\ not_found' = IF r.status = "NOT_FOUND"
                           THEN not_found \cup {script[t].id} ELSE not_found
    /\ UNCHANGED <<store, relation_store_id, queries_count, timer,
                   allocated, registered, committed, del_calls, evaluate_args, backup>>

\* SysOp::RemoveRelation(["r"]): the writable session.
RmOpen(t, W) ==
    /\ pc[t] = "rm_open"
    /\ \/ /\ "transact" \in W.faults
          /\ Finish(t, Err("transact_error"))
       \/ /\ tx' = [tx EXCEPT ![t] = NewTx(TRUE)]
          /\ Goto(t, "rm_destroy")
          /\ UNCHANGED <<result, script, idx, cleanups, qid, endless, pending>>
    /\ UNCHANGED <<db, history, backup>>

\* SysOp::RemoveRelation: destroy_relation of each name, here of "r".
RmDestroy(t) ==
    /\ pc[t] = "rm_destroy"
    /\ IF RelationExists(tx[t], store)
       THEN LET d == DestroyRelation(tx[t], store)
            IN  /\ tx' = [tx EXCEPT ![t] = d.tx]
                /\ cleanups' = [cleanups EXCEPT ![t] = Append(@, d.bound)]
                /\ Goto(t, "rm_commit")
                /\ UNCHANGED <<result, script, idx, qid, endless, pending>>
       ELSE Finish(t, Err("destroy_relation_error"))
    /\ UNCHANGED <<db, history, backup>>

\* RmCommit, going on to the cleanup without the commit.
RmCommitNot(t, W) ==
    /\ pc[t] = "rm_commit"
    /\ tx' = [tx EXCEPT ![t] = NoTx]
    /\ Goto(t, "rm_cleanup")
    /\ UNCHANGED <<result, script, idx, cleanups, qid, endless, pending>>
    /\ UNCHANGED <<db, history, backup>>

\* SysOp::RemoveRelation: commit_tx.
RmCommit(t, W) ==
    /\ pc[t] = "rm_commit"
    /\ \/ /\ "commit" \in W.faults
          /\ Finish(t, Err("commit_error"))
          /\ UNCHANGED <<store, committed>>
       \/ /\ store' = CommitTx(tx[t], store)
          /\ committed' = committed \cup {t}
          /\ tx' = [tx EXCEPT ![t] = NoTx]
          /\ Goto(t, "rm_cleanup")
          /\ UNCHANGED <<result, script, idx, cleanups, qid, endless, pending>>
    /\ UNCHANGED <<relation_store_id, queries_count, running_queries, flag, timer,
                   allocated, registered, del_calls, killing, not_found,
                   evaluate_args, backup>>

\* SysOp::RemoveRelation after the commit: del_range of each bound.
RmCleanup(t, W) ==
    /\ pc[t] = "rm_cleanup"
    /\ DelRanges(t, W, Ok(StatusRows("OK")))

\* TimerFire, the thread ending without the store.
TimerFireNoStore(p) ==
    /\ timer[p] = "armed"
    /\ timer' = [timer EXCEPT ![p] = "fired"]
    /\ UNCHANGED <<store, relation_store_id, queries_count, running_queries, flag, history,
                   backup, pc, script, idx, tx, cleanups, qid, endless, pending, result>>

\* The detached thread of set_timeout wakes up: pill.store(true).
TimerFire(p) ==
    /\ timer[p] = "armed"
    /\ timer' = [timer EXCEPT ![p] = "fired"]
    /\ flag' = [flag EXCEPT ![p] = TRUE]
    /\ UNCHANGED <<store, relation_store_id, queries_count, running_queries, history, backup,
                   pc, script, idx, tx, cleanups, qid, endless, pending, result>>

(***************************************************************************)
(* The specifications: all of the program, and the program under each      *)
(* workload.                                                               *)
(***************************************************************************)
\* One step of run_script for a script of statements.
ScriptStep(t, W) ==
    \/ Start(t, W) \/ Open(t, W) \/ Preflight(t) \/ Compile(t, W) \/ Alloc(t)
    \/ Insert(t, W) \/ Evaluate(t, W) \/ Assertion(t, W) \/ Output(t, W)
    \/ GuardDrop(t) \/ Commit(t, W) \/ Cleanup(t, W)

RemoveStep(t, W) == RmOpen(t, W) \/ RmDestroy(t) \/ RmCommit(t, W) \/ RmCleanup(t, W)

RegistryStep(t) == SysListRunning(t) \/ SysKillRunning(t)

Timers == \E p \in PoisonRefs : TimerFire(p)

Next ==
    \/ \E t \in Threads : ScriptStep(t, FullLoad) \/ RemoveStep(t, FullLoad) \/ RegistryStep(t)
    \/ Timers

Spec == Init /\ [][Next]_vars

NextTx == \E t \in Callers : ScriptStep(t, TxLoad) \/ RemoveStep(t, TxLoad)

SpecTx == Init /\ [][NextTx]_vars

NextReg == \E t \in Callers : ScriptStep(t, RegLoad) \/ RegistryStep(t)

SpecReg == Init /\ [][NextReg]_vars

NextTimer ==
    \/ \E t \in Callers : ScriptStep(t, TimerLoad)
    \/ Timers

SpecTimer == Init /\ [][NextTimer]_vars

NextDirective == \E t \in Callers : ScriptStep(t, DirectiveLoad)

SpecDirective == Init /\ [][NextDirective]_vars

(***************************************************************************)
(* import_relations. The one relation of the catalog, "r", has the key     *)
(* column k (Int, no default) and the value column v (String, with a       *)
(* default). A stored row is <<relation id, key tuple, value tuple>>. JSON  *)
(* values and DataValues are tagged; a JSON object is the sequence of its  *)
(* <<name, value>> pairs in the order of the names, a string that is cut   *)
(* apart is the sequence of its characters.                                *)
(***************************************************************************)
RelationName == <<"r">>
KeyCols == <<[name |-> "k", typing |-> "Int", default_gen |-> None]>>
NonKeyCols == <<[name |-> "v", typing |-> "Str", default_gen |-> Some(<<"Str", "a">>)]>>

Strs == {"a", "b"}
DataValues == {<<"Int", n>> : n \in 1..MaxKey} \cup {<<"Str", x>> : x \in Strs}

\* JsonValue::from(DataValue) and DataValue::from(&JsonValue)
ToJson(dv) == IF dv[1] = "Int" THEN <<"number", dv[2]>> ELSE <<"string", dv[2]>>
FromJson(j) ==
    IF j[1] = "number" THEN <<"Int", j[2]>>
    ELSE IF j[1] = "string" THEN <<"Str", j[2]>>
    ELSE <<"Null", 0>>
\* NullableColType::coerce: the value, or None for a value not of the type.
Coerce(typing, dv) == IF dv[1] = typing THEN Some(dv) ELSE None

\* JsonValue::get, as_array and as_str
Get(j, name) ==
    IF j[1] = "object" /\ \E i \in 1..Len(j[2]) : j[2][i][1] = name
    THEN Some(j[2][CHOOSE i \in 1..Len(j[2]) : j[2][i][1] = name][2])
    ELSE None
AsArray(j) == IF j[1] = "array" THEN Some(j[2]) ELSE None
AsStr(j) == IF j[1] = "string" THEN Some(j[2]) ELSE None

\* str::strip_prefix of one character
StripPrefix(str, c) == IF str # <<>> /\ Head(str) = c THEN Some(Tail(str)) ELSE None

\* The outcome of a column, a row or an entry of the payload.
Good(v) == [err |-> "ok", v |-> v]
Bad(err) == [err |-> err, v |-> <<>>]
\* Iterator::try_collect: the values, or the first error.
TryCollect(rs) ==
    IF \E i \in 1..Len(rs) : rs[i].err # "ok"
    THEN Bad(rs[CHOOSE i \in 1..Len(rs) :
                    rs[i].err # "ok" /\ \A j \in 1..(i - 1) : rs[j].err = "ok"].err)
    ELSE Good([i \in 1..Len(rs) |-> rs[i].v])

CoerceCol(col, dv) ==
    IF Coerce(col.typing, dv) = None THEN Bad("coerce_error")
    ELSE Good(Coerce(col.typing, dv)[1])

\* proc_col: the column of an object of the array form.
ProcCol(col, val) ==
    IF Get(val, col.name) = None
    THEN IF col.default_gen # None THEN CoerceCol(col, col.default_gen[1])
         ELSE Bad("import::bad_data")
    ELSE CoerceCol(col, FromJson(Get(val, col.name)[1]))

\* The put or the delete of a row, given its keys and (for a put) its values.
StoreRow(t, id, is_delete, keys, vals) ==
    IF keys.err # "ok" THEN Bad(keys.err)
    ELSE IF is_delete THEN Good(TxDel(t, id, keys.v))
    ELSE IF vals.err # "ok" THEN Bad(vals.err)
    ELSE Good(TxPut(t, id, keys.v, vals.v))

\* import_relations, the array form: one object after the other.
RECURSIVE ImportObjects(_, _, _, _)
ImportObjects(t, id, is_delete, in_data) ==
    IF in_data = <<>> THEN Good(t)
    ELSE LET val == Head(in_data)
             r == StoreRow(t, id, is_delete,
                           TryCollect([i \in 1..Len(KeyCols) |-> ProcCol(KeyCols[i], val)]),
                           TryCollect([i \in 1..Len(NonKeyCols) |->
                                          ProcCol(NonKeyCols[i], val)]))
         IN  IF r.err # "ok" THEN r ELSE ImportObjects(r.v, id, is_delete, Tail(in_data))

\* Header2Idx, taking the position of the column among the columns of the
\* relation for the position of its header.
Header2IdxPositional(headers, name) ==
    LET cols == KeyCols \o NonKeyCols
        at == {i \in 1..Len(cols) : cols[i].name = name /\ i <= Len(headers)}
    IN  IF at = {} THEN None ELSE Some((CHOOSE i \in at : TRUE) - 1)

\* header2idx: the position (from 0) of every header; of a header given
\* twice, the last.
Header2Idx(headers, name) ==
    LET at == {i \in 1..Len(headers) : AsStr(headers[i]) = Some(name)}
    IN  IF at = {} THEN None ELSE Some((CHOOSE i \in at : \A j \in at : j <= i) - 1)

\* The (index, column) pairs of the columns, or the first header missing.
Indices(cols, headers) ==
    TryCollect([i \in 1..Len(cols) |->
        IF Header2Idx(headers, cols[i].name) = None THEN Bad("required_header_not_found")
        ELSE Good(<<Header2Idx(headers, cols[i].name)[1], cols[i]>>)])

\* The cell of a row for an (index, column) pair.
Cell(row, ic) ==
    IF ic[1] >= Len(row) THEN Bad("row_too_short")
    ELSE CoerceCol(ic[2], FromJson(row[ic[1] + 1]))

\* import_relations, the {headers, rows} form: one row after the other.
RECURSIVE ImportRows(_, _, _, _, _, _)
ImportRows(t, id, is_delete, key_indices, val_indices, rows) ==
    IF rows = <<>> THEN Good(t)
    ELSE IF AsArray(Head(rows)) = None THEN Bad("row_not_array")
    ELSE LET row == AsArray(Head(rows))[1]
             r == StoreRow(t, id, is_delete,
                           TryCollect([i \in 1..Len(key_indices) |->
                                          Cell(row, key_indices[i])]),
                           TryCollect([i \in 1..Len(val_indices) |->
                                          Cell(row, val_indices[i])]))
         IN  IF r.err # "ok" THEN r
             ELSE ImportRows(r.v, id, is_delete, key_indices, val_indices, Tail(rows))

ImportTable(t, id, is_delete, map) ==
    IF Get(map, "headers") = None THEN Bad("headers_required")
    ELSE IF AsArray(Get(map, "headers")[1]) = None THEN Bad("headers_not_array")
    ELSE LET headers == AsArray(Get(map, "headers")[1])[1]
             key_indices == Indices(KeyCols, headers)
             val_indices == IF is_delete THEN Good(<<>>) ELSE Indices(NonKeyCols, headers)
         IN  IF \E i \in 1..Len(headers) : AsStr(headers[i]) = None
             THEN Bad("header_not_string")
             ELSE IF key_indices.err # "ok" THEN key_indices
             ELSE IF val_indices.err # "ok" THEN val_indices
             ELSE IF Get(map, "rows") = None THEN Bad("rows_required")
             ELSE IF AsArray(Get(map, "rows")[1]) = None THEN Bad("rows_not_array")
             ELSE ImportRows(t, id, is_delete, key_indices.v, val_indices.v,
                             AsArray(Get(map, "rows")[1])[1])

\* import_relations, one entry (relation_op, in_data) of the payload: the
\* session with the puts and deletes of the entry, or the error.
ImportEntry(t, s, entry) ==
    LET relation_op == entry[1]
        in_data == entry[2]
        is_delete == StripPrefix(relation_op, "-") # None
        relation == IF is_delete THEN StripPrefix(relation_op, "-")[1] ELSE relation_op
    IN  IF relation # RelationName \/ GetRelationFails(t, s) THEN Bad("get_relation_error")
        ELSE IF in_data[1] = "array"
        THEN ImportObjects(t, ViewCat(t, s), is_delete, in_data[2])
        ELSE IF in_data[1] = "object"
        THEN ImportTable(t, ViewCat(t, s), is_delete, in_data)
        ELSE Bad("bad_shape")

\* import_relations, the whole loop over the payload from entry i on.
RECURSIVE ImportFrom(_, _, _, _)
ImportFrom(t, s, data, i) ==
    IF i > Len(data) THEN Good(t)
    ELSE IF ImportEntry(t, s, data[i]).err # "ok" THEN ImportEntry(t, s, data[i])
    ELSE ImportFrom(ImportEntry(t, s, data[i]).v, s, data, i + 1)

\* The JSON of an object with the given fields, of a row and of a table.
Num(n) == <<"number", n>>
Str(x) == <<"string", x>>
Arr(xs) == <<"array", xs>>
Table(headers, rows) ==
    <<"object", <<<<"headers", Arr([i \in 1..Len(headers) |-> Str(headers[i])])>>,
                  <<"rows", Arr([i \in 1..Len(rows) |-> Arr(rows[i])])>> >> >>

\* The entries of the payloads: deletes of "r", puts into "r", and an entry
\* for a relation the catalog does not have.
DeleteEntries ==
    {<<<<"-", "r">>, Arr(<< <<"object", <<<<"k", Num(1)>>>> >> >>)>>,
     <<<<"-", "r">>, Table(<<"k">>, << <<Num(2)>> >>)>>}
PutEntries ==
    {\* two objects, the second taking the default of v
     <<<<"r">>, Arr(<< <<"object", <<<<"k", Num(1)>>, <<"v", Str("b")>>>> >>,
                      <<"object", <<<<"k", Num(2)>>>> >> >>)>>,
     \* the second object without its key column, which has no default
     <<<<"r">>, Arr(<< <<"object", <<<<"k", Num(1)>>, <<"v", Str("b")>>>> >>,
                      <<"object", <<<<"v", Str("a")>>>> >> >>)>>,
     \* the second object with a key that is not an integer
     <<<<"r">>, Arr(<< <<"object", <<<<"k", Num(2)>>, <<"v", Str("b")>>>> >>,
                      <<"object", <<<<"k", Str("a")>>, <<"v", Str("a")>>>> >> >>)>>,
     \* a table with its headers in the other order
     <<<<"r">>, Table(<<"v", "k">>, << <<Str("b"), Num(1)>>, <<Str("a"), Num(2)>> >>)>>,
     \* a table whose second row is too short
     <<<<"r">>, Table(<<"k", "v">>, << <<Num(1), Str("b")>>, <<Num(2)>> >>)>>,
     \* a table without the header of v
     <<<<"r">>, Table(<<"k">>, << <<Num(1)>> >>)>>,
     \* neither an array nor an object
     <<<<"r">>, Num(1)>>}
UnknownEntries ==
    {<<<<"x">>, Arr(<< <<"object", <<<<"k", Num(1)>>, <<"v", Str("b")>>>> >> >>)>>}

\* The payloads: a map from relation_op to data, gone through in the order
\* of its keys ("-r" before "r" before "x").
ImportPayloads ==
    {d \o p \o x : d \in {<<>>} \cup {<<e>> : e \in DeleteEntries},
                   p \in {<<>>} \cup {<<e>> : e \in PutEntries},
                   x \in {<<>>} \cup {<<e>> : e \in UnknownEntries}}
ImportLoad ==
    [scripts |-> {[kind |-> "Import", data |-> d] : d \in ImportPayloads},
     timeouts |-> {FALSE}, endless |-> {FALSE}, times |-> {0},
     faults |-> {"transact", "commit"}]

\* import_relations is called: the writable session of the whole call.
ImportOpen(t, W) ==
    /\ pc[t] = "idle"
    /\ \/ /\ "transact" \in W.faults
          /\ Finish(t, Err("transact_error"))
       \/ /\ \E s \in W.scripts : script' = [script EXCEPT ![t] = s]
          /\ tx' = [tx EXCEPT ![t] = NewTx(TRUE)]
          /\ idx' = [idx EXCEPT ![t] = 1]
          /\ Goto(t, "import")
          /\ UNCHANGED <<result, cleanups, qid, endless, pending>>
    /\ UNCHANGED <<db, history, backup>>

\* ImportStep, committing the session after every entry.
ImportStepCommitting(t) ==
    /\ pc[t] = "import"
    /\ idx[t] <= Len(script[t].data)
    /\ LET r == ImportEntry(tx[t], store, script[t].data[idx[t]])
       IN  IF r.err # "ok" THEN Finish(t, Err(r.err)) /\ UNCHANGED store
           ELSE /\ tx' = [tx EXCEPT ![t] = r.v]
                /\ store' = CommitTx(r.v, store)
                /\ idx' = [idx EXCEPT ![t] = @ + 1]
                /\ UNCHANGED <<pc, result, script, cleanups, qid, endless, pending>>
    /\ UNCHANGED <<relation_store_id, queries_count, running_queries, flag, timer,
                   history, backup>>

\* The next entry of the payload: its puts and deletes go to the session, or
\* the call returns its error.
ImportStep(t) ==
    /\ pc[t] = "import"
    /\ idx[t] <= Len(script[t].data)
    /\ LET r == ImportEntry(tx[t], store, script[t].data[idx[t]])
       IN  IF r.err # "ok" THEN Finish(t, Err(r.err))
           ELSE /\ tx' = [tx EXCEPT ![t] = r.v]
                /\ idx' = [idx EXCEPT ![t] = @ + 1]
                /\ UNCHANGED <<pc, result, script, cleanups, qid, endless, pending>>
    /\ UNCHANGED <<db, history, backup>>

\* After the last entry: commit_tx, and Ok.
ImportCommit(t, W) ==
    /\ pc[t] = "import"
    /\ idx[t] > Len(script[t].data)
    /\ \/ /\ "commit" \in W.faults
          /\ UNCHANGED <<store, committed>>
          /\ Finish(t, Err("commit_error"))
       \/ /\ store' = CommitTx(tx[t], store)
          /\ committed' = committed \cup {t}
          /\ Finish(t, Ok(<<>>))
    /\ UNCHANGED <<relation_store_id, queries_count, running_queries, flag, timer,
                   allocated, registered, del_calls, killing, not_found,
                   evaluate_args, backup>>

\* The stores that hold the relation "r" (of id 1) with some rows.
StockedStores ==
    {[cat |-> 1, rows |-> {<<1, <<<<"Int", k>>>>, <<<<"Str", f[k]>>>>>> : k \in K}] :
        f \in [1..MaxKey -> Strs], K \in SUBSET (1..MaxKey)}

InitImport ==
    /\ store \in StockedStores
    /\ relation_store_id = 1
    /\ backup = EmptyFile
    /\ InitRun
    /\ script = [t \in Threads |-> NoScript]

\* Two callers import.
NextImport ==
    \/ \E t \in Callers : ImportOpen(t, ImportLoad)
    \/ \E t \in Callers : ImportStep(t)
    \/ \E t \in Callers : ImportCommit(t, ImportLoad)

SpecImport == InitImport /\ [][NextImport]_vars

(***************************************************************************)
(* export_relations, and the round trip of an export through                *)
(* import_relations.                                                       *)
(***************************************************************************)
\* range_scan over the range of a relation: its rows in the order of their
\* keys, as a read through session t sees them.
RECURSIVE InKeyOrder(_)
InKeyOrder(rows) ==
    IF rows = {} THEN <<>>
    ELSE LET r == CHOOSE x \in rows : \A y \in rows : x[2][1][2] <= y[2][1][2]
         IN  <<r>> \o InKeyOrder(rows \ {r})
RangeScan(t, s, rg) == InKeyOrder({r \in ViewRows(t, s) : InRange(r, rg)})

\* decode_tuple_from_kv: the key columns, then the others.
DecodeTupleFromKv(row) == row[2] \o row[3]

\* export_relations for one relation: the array of objects, or the table.
ExportRelation(t, s, as_objects) ==
    LET cols == [i \in 1..Len(KeyCols) |-> KeyCols[i].name]
                \o [i \in 1..Len(NonKeyCols) |-> NonKeyCols[i].name]
        scan == RangeScan(t, s, Range(ViewCat(t, s)))
        cells(i) == [j \in 1..Len(cols) |-> ToJson(DecodeTupleFromKv(scan[i])[j])]
    IN  IF as_objects
        THEN Arr([i \in 1..Len(scan) |->
                    <<"object", [j \in 1..Len(cols) |-> <<cols[j], cells(i)[j]>>]>>])
        ELSE Table(cols, [i \in 1..Len(scan) |-> cells(i)])

\* export_relations: the object keyed by the names of the relations, as the
\* sequence of its (name, data) pairs, or the error of get_relation.
ExportRelations(s, relations, as_objects) ==
    IF \E i \in 1..Len(relations) :
            relations[i] # RelationName \/ GetRelationFails(NewTx(FALSE), s)
    THEN Bad("get_relation_error")
    ELSE Good([i \in 1..Len(relations) |->
                <<relations[i], ExportRelation(NewTx(FALSE), s, as_objects)>>])

\* import_relations as one step: the store after it, or its error and the
\* store as it was.
ImportRelations(s, data) ==
    LET r == ImportFrom(NewTx(TRUE), s, data, 1)
    IN  IF r.err # "ok" THEN [err |-> r.err, store |-> s]
        ELSE [err |-> "ok", store |-> CommitTx(r.v, s)]

\* What the client of the round trip does with an export: the same payload
\* in delete mode, and the payload with the fields of every object, or the
\* headers and the cells of every row, permuted by p.
Permuted(xs, p) == [i \in 1..Len(xs) |-> xs[p[i]]]
Perms(n) == {p \in [1..n -> 1..n] : \A i, j \in 1..n : p[i] = p[j] => i = j}
PermutedData(data, p) ==
    IF data[1] = "array"
    THEN Arr([i \in 1..Len(data[2]) |-> <<"object", Permuted(data[2][i][2], p)>>])
    ELSE LET headers == AsArray(Get(data, "headers")[1])[1]
             rows == AsArray(Get(data, "rows")[1])[1]
         IN  <<"object", <<<<"headers", Arr(Permuted(headers, p))>>,
                           <<"rows", Arr([i \in 1..Len(rows) |->
                                            Arr(Permuted(rows[i][2], p))])>> >> >>
PermutedPayload(payload, p) ==
    [i \in 1..Len(payload) |-> <<payload[i][1], PermutedData(payload[i][2], p)>>]
DeletePayload(payload) ==
    [i \in 1..Len(payload) |-> <<<<"-">> \o payload[i][1], payload[i][2]>>]

\* The round trip, a call at a time: export, import in delete mode, import
\* of the permuted payload, export. result holds the exports made so far.
RoundTripExport(t) ==
    /\ pc[t] = "idle"
    /\ script[t].kind = "RoundTrip"
    /\ LET e == ExportRelations(store, <<RelationName>>, script[t].as_objects)
       IN  IF e.err # "ok" THEN Finish(t, Err(e.err))
           ELSE /\ result' = [result EXCEPT ![t] = Ok(<<e.v>>)]
                /\ Goto(t, "exported")
                /\ UNCHANGED <<script, tx, idx, cleanups, qid, endless, pending>>
    /\ UNCHANGED <<db, history, backup>>

RoundTripEmpty(t) ==
    /\ pc[t] = "exported"
    /\ LET r == ImportRelations(store, DeletePayload(result[t].rows[1]))
       IN  IF r.err # "ok" THEN Finish(t, Err(r.err)) /\ UNCHANGED store
           ELSE /\ store' = r.store
                /\ Goto(t, "emptied")
                /\ UNCHANGED <<result, script, tx, idx, cleanups, qid, endless, pending>>
    /\ UNCHANGED <<relation_store_id, queries_count, running_queries, flag, timer,
                   history, backup>>

RoundTripImport(t) ==
    /\ pc[t] = "emptied"
    /\ LET r == ImportRelations(store, PermutedPayload(result[t].rows[1], script[t].perm))
       IN  IF r.err # "ok" THEN Finish(t, Err(r.err)) /\ UNCHANGED store
           ELSE /\ store' = r.store
                /\ Goto(t, "imported")
                /\ UNCHANGED <<result, script, tx, idx, cleanups, qid, endless, pending>>
    /\ UNCHANGED <<relation_store_id, queries_count, running_queries, flag, timer,
                   history, backup>>

RoundTripReexport(t) ==
    /\ pc[t] = "imported"
    /\ LET e == ExportRelations(store, <<RelationName>>, script[t].as_objects)
       IN  IF e.err # "ok" THEN Finish(t, Err(e.err))
           ELSE /\ result' = [result EXCEPT ![t] = Ok(@.rows \o <<e.v>>)]
                /\ Goto(t, "reexported")
                /\ UNCHANGED <<script, tx, idx, cleanups, qid, endless, pending>>
    /\ UNCHANGED <<db, history, backup>>

\* The first caller is about to make the round trip over a store that holds
\* the relation; before is the store it starts from.
InitRoundTrip ==
    /\ store \in StockedStores
    /\ relation_store_id = 1
    /\ backup = EmptyFile
    /\ InitRun
    /\ \E as_objects \in BOOLEAN, p \in Perms(Len(KeyCols) + Len(NonKeyCols)) :
          script = [t \in Threads |->
                      IF t = 1
                      THEN [kind |-> "RoundTrip", as_objects |-> as_objects, perm |-> p,
                            before |-> store]
                      ELSE NoScript]

NextRoundTrip ==
    \/ RoundTripExport(1)
    \/ RoundTripEmpty(1)
    \/ RoundTripImport(1)
    \/ RoundTripReexport(1)

SpecRoundTrip == InitRoundTrip /\ [][NextRoundTrip]_vars

(***************************************************************************)
(* backup_db and restore_backup, built with the storage-sqlite feature.    *)
(* The Sqlite file is a second store; new_cozo_sqlite opens a Db on it,    *)
(* whose relation_store_id is the last relation id the file persists.      *)
(***************************************************************************)
\* The files, and the databases a backup is taken of: without a relation, or
\* holding the relation "r".
Files ==
    {EmptyFile} \cup {[cat |-> s.cat, rows |-> s.rows, last_id |-> 1] : s \in StockedStores}

\* new_cozo_sqlite(file).relation_store_id
NewCozoSqlite(file) == file.last_id

\* range_scan(&[], &[1]): every pair of a store, the catalog with the rows.
TotalScan(s) == [cat |-> s.cat, rows |-> s.rows]

\* StoreTx::batch_put: the pairs are put in the transaction.
BatchPut(t, pairs) ==
    [t EXCEPT !.cat = pairs.cat,
              !.rows = {r \in @ : ~\E w \in pairs.rows : w[1] = r[1] /\ w[2] = r[2]}
                       \cup pairs.rows,
              !.dels = {d \in @ : ~\E w \in pairs.rows : d = <<w[1], w[2]>>}]

\* backup_db of the database db into a new file; restore_backup of the file.
BackupLoad ==
    [scripts |-> {[kind |-> "Backup", db |-> a] : a \in Files},
     timeouts |-> {FALSE}, endless |-> {FALSE}, times |-> {0},
     faults |-> {"transact", "batch_put"}]
RestoreLoad ==
    [scripts |-> {[kind |-> "Restore"]},
     timeouts |-> {FALSE}, endless |-> {FALSE}, times |-> {0},
     faults |-> {"batch_put"}]
\* The caller of restore_backup waits for thread t to have returned.
After(t, W) == [W EXCEPT !.scripts = IF pc[t] = "done" THEN @ ELSE {}]

\* backup_db: s_tx, the writable session on the file, and tx, the session on
\* the database (tx[t] is s_tx; tx only reads).
BackupOpen(t, W) ==
    /\ pc[t] = "idle"
    /\ \/ /\ "transact" \in W.faults
          /\ W.scripts # {}
          /\ Finish(t, Err("transact_error"))
       \/ /\ \E s \in W.scripts : script' = [script EXCEPT ![t] = s]
          /\ tx' = [tx EXCEPT ![t] = NewTx(TRUE)]
          /\ Goto(t, "backup_put")
          /\ UNCHANGED <<result, idx, cleanups, qid, endless, pending>>
    /\ UNCHANGED <<db, history, backup>>

\* s_tx.tx.batch_put(tx.tx.range_scan(&[], &[1]))?
BackupPut(t, W) ==
    /\ pc[t] = "backup_put"
    /\ \/ /\ "batch_put" \in W.faults
          /\ Finish(t, Err("batch_put_error"))
       \/ /\ tx' = [tx EXCEPT ![t] = BatchPut(@, TotalScan(script[t].db))]
          /\ Goto(t, "backup_return")
          /\ UNCHANGED <<result, script, idx, cleanups, qid, endless, pending>>
    /\ UNCHANGED <<db, history, backup>>

\* Ok(()): both sessions are dropped, neither was committed. script keeps
\* the database the backup was taken of.
BackupReturn(t) ==
    /\ pc[t] = "backup_return"
    /\ pc' = [pc EXCEPT ![t] = "done"]
    /\ result' = [result EXCEPT ![t] = Ok(<<>>)]
    /\ tx' = [tx EXCEPT ![t] = NoTx]
    /\ UNCHANGED <<script, idx, cleanups, qid, endless, pending>>
    /\ UNCHANGED <<db, history, backup>>

\* restore_backup: the Db on the file and its session s_tx, the test of
\* s_tx.relation_store_id, and tx, the session on this database (tx[t]).
RestoreOpen(t, W) ==
    /\ pc[t] = "idle"
    /\ \E s \in W.scripts :
          IF NewCozoSqlite(backup) # 0
          THEN Finish(t, Err("restore_refused"))
          ELSE /\ script' = [script EXCEPT ![t] = s]
               /\ tx' = [tx EXCEPT ![t] = NewTx(FALSE)]
               /\ Goto(t, "restore_put")
               /\ UNCHANGED <<result, idx, cleanups, qid, endless, pending>>
    /\ UNCHANGED <<db, history, backup>>

\* tx.tx.batch_put(s_tx.tx.range_scan(&[], &[1]))?
RestorePut(t, W) ==
    /\ pc[t] = "restore_put"
    /\ \/ /\ "batch_put" \in W.faults
          /\ Finish(t, Err("batch_put_error"))
       \/ /\ tx' = [tx EXCEPT ![t] = BatchPut(@, TotalScan(backup))]
          /\ Goto(t, "restore_return")
          /\ UNCHANGED <<result, script, idx, cleanups, qid, endless, pending>>
    /\ UNCHANGED <<db, history, backup>>

\* Ok(()): both sessions are dropped, neither was committed.
RestoreReturn(t) ==
    /\ pc[t] = "restore_return"
    /\ Finish(t, Ok(<<>>))
    /\ UNCHANGED <<db, history, backup>>

\* Two callers restore a file into a database; the file and the database
\* are without a relation or hold the relation "r", and a database without
\* a relation may have had one.
InitRestore ==
    /\ \/ store = EmptyStore /\ relation_store_id \in {0, 1}
       \/ store \in StockedStores /\ relation_store_id = 1
    /\ backup \in Files
    /\ InitRun
    /\ script = [t \in Threads |-> NoScript]

NextRestore ==
    \/ \E t \in Callers : RestoreOpen(t, RestoreLoad)
    \/ \E t \in Callers : RestorePut(t, RestoreLoad)
    \/ \E t \in Callers : RestoreReturn(t)

SpecRestore == InitRestore /\ [][NextRestore]_vars

\* The first thread backs a database up into a new file; once it has
\* returned, the others restore the file into a database without a relation.
Restorers == Threads \ {1}
NextBackup ==
    \/ BackupOpen(1, BackupLoad)
    \/ BackupPut(1, BackupLoad)
    \/ BackupReturn(1)
    \/ \E t \in Restorers : RestoreOpen(t, After(1, RestoreLoad))
    \/ \E t \in Restorers : RestorePut(t, RestoreLoad)
    \/ \E t \in Restorers : RestoreReturn(t)

SpecBackup == Init /\ [][NextBackup]_vars

(***************************************************************************)
(* import_from_backup. A stored pair is the bytes of its key and of its    *)
(* value; both start with the id of the relation (one element here for the *)
(* eight bytes), followed by the encoded columns.                          *)
(***************************************************************************)
\* encode_key_for_store and encode_val_only_for_store of a row, and the row
\* of a pair.
KeyBytes(row) == <<row[1]>> \o row[2]
ValBytes(row) == <<row[1]>> \o row[3]
RowOfPair(k, v) == <<k[1], Tail(k), Tail(v)>>

\* amend_key_prefix, leaving the bytes as they are.
AmendKeyPrefixNot(id, data) == data

\* RelationHandle::amend_key_prefix: the first eight bytes become the id.
AmendKeyPrefix(id, data) == [data EXCEPT ![1] = id]

\* The pairs import_from_backup hands to batch_put for one relation: the
\* range of the source relation, with the prefix of the destination handle
\* on the key and on the value.
AmendedPairs(src, src_id, dst_id) ==
    {RowOfPair(AmendKeyPrefix(dst_id, KeyBytes(r)), AmendKeyPrefix(dst_id, ValBytes(r))) :
        r \in {x \in src.rows : InRange(x, Range(src_id))}}

\* The files to import from: without a relation, or holding "r" under the
\* id 1 or 2.
SourceFiles ==
    Files \cup {[cat |-> 2, rows |-> {<<2, r[2], r[3]>> : r \in s.rows}, last_id |-> 2] :
                  s \in StockedStores}

\* The relations asked for: "r", a name neither catalog has, or both.
ImportFromBackupLoad ==
    [scripts |-> {[kind |-> "ImportFromBackup", relations |-> rs] :
                    rs \in {<<RelationName>>, <<<<"x">>>>, <<RelationName, <<"x">>>>, <<>>}},
     timeouts |-> {FALSE}, endless |-> {FALSE}, times |-> {0},
     faults |-> {"commit"}]

\* import_from_backup: the Db on the file, src_tx on it, and dst_tx, the
\* writable session on this database (tx[t]).
ImportFromBackupOpen(t, W) ==
    /\ pc[t] = "idle"
    /\ \E s \in W.scripts : script' = [script EXCEPT ![t] = s]
    /\ tx' = [tx EXCEPT ![t] = NewTx(TRUE)]
    /\ idx' = [idx EXCEPT ![t] = 1]
    /\ Goto(t, "from_backup")
    /\ UNCHANGED <<result, cleanups, qid, endless, pending>>
    /\ UNCHANGED <<db, history, backup>>

\* The next relation: both handles, and the batch_put of the amended pairs.
ImportFromBackupStep(t) ==
    /\ pc[t] = "from_backup"
    /\ idx[t] <= Len(script[t].relations)
    /\ IF \/ script[t].relations[idx[t]] # RelationName
          \/ backup.cat = 0
          \/ GetRelationFails(tx[t], store)
       THEN Finish(t, Err("get_relation_error"))
       ELSE /\ tx' = [tx EXCEPT ![t] =
                        BatchPut(@, [cat |-> ViewCat(tx[t], store),
                                     rows |-> AmendedPairs(backup, backup.cat,
                                                           ViewCat(tx[t], store))])]
            /\ idx' = [idx EXCEPT ![t] = @ + 1]
            /\ UNCHANGED <<pc, result, script, cleanups, qid, endless, pending>>
    /\ UNCHANGED <<db, history, backup>>

\* src_tx.commit_tx()?; dst_tx.commit_tx()
ImportFromBackupCommit(t, W) ==
    /\ pc[t] = "from_backup"
    /\ idx[t] > Len(script[t].relations)
    /\ \/ /\ "commit" \in W.faults
          /\ UNCHANGED <<store, committed>>
          /\ Finish(t, Err("commit_error"))
       \/ /\ store' = CommitTx(tx[t], store)
          /\ committed' = committed \cup {t}
          /\ Finish(t, Ok(<<>>))
    /\ UNCHANGED <<relation_store_id, queries_count, running_queries, flag, timer,
                   allocated, registered, del_calls, killing, not_found,
                   evaluate_args, backup>>

\* A database without a relation or holding "r" under the id 1, and a file.
InitImportFromBackup ==
    /\ \/ store = EmptyStore /\ relation_store_id = 0
       \/ store \in StockedStores /\ relation_store_id = 1
    /\ backup \in SourceFiles
    /\ InitRun
    /\ script = [t \in Threads |-> NoScript]

NextImportFromBackup ==
    \/ \E t \in Callers : ImportFromBackupOpen(t, ImportFromBackupLoad)
    \/ \E t \in Callers : ImportFromBackupStep(t)
    \/ \E t \in Callers : ImportFromBackupCommit(t, ImportFromBackupLoad)

SpecImportFromBackup == InitImportFromBackup /\ [][NextImportFromBackup]_vars

\* The first caller is given a query that has been evaluated.
InitResult ==
    /\ InitDb
    /\ \E q \in Queries : script = [t \in Threads |-> IF t = 1 THEN q ELSE NoScript]

NextResult == \E t \in Callers : RunQueryTail(t)

SpecResult == InitResult /\ [][NextResult]_vars

\* Two callers run queries while a third thread issues one ::kill.
NextKill ==
    \/ \E t \in Callers : ScriptStep(t, QueryLoad)
    \/ Start(Killer, KillerLoad)
    \/ SysKillRunning(Killer)

SpecKill == Init /\ [][NextKill]_vars

(***************************************************************************)
(* The mutex of running_queries. A thread that holds the MutexGuard is at  *)
(* one of the places of Locked, so the mutex is held exactly when some     *)
(* thread is there; Mutex::lock blocks a thread as long as the mutex is    *)
(* held, by another thread or by itself. Each operation on the registry is *)
(* two steps: lock() returns, and the operation is done and the guard      *)
(* dropped.                                                                *)
(***************************************************************************)
Locked == {"insert_locked", "drop_locked", "kill_locked", "list_locked"}

\* LockHeld, the guard of the insert living on to the end of run_query.
LockHeldThroughQuery ==
    \E u \in Threads : pc[u] \in Locked \cup {"eval", "assert", "output", "drop"}

\* The mutex of running_queries is held.
LockHeld == \E u \in Threads : pc[u] \in Locked

\* run_query: the wall clock is read, then running_queries.lock() returns.
InsertLock(t, W) ==
    /\ pc[t] = "insert"
    /\ \/ /\ "clock" \in W.faults
          /\ Finish(t, Err("clock_error"))
       \/ /\ ~LockHeld
          /\ Goto(t, "insert_locked")
          /\ UNCHANGED <<tx, result, script, idx, cleanups, qid, endless, pending>>
    /\ UNCHANGED <<db, history, backup>>

\* run_query: insert(id, handle), and the MutexGuard is dropped at the end of
\* the statement; the evaluation begins.
InsertUnlock(t, W) ==
    /\ pc[t] = "insert_locked"
    /\ \E now \in W.times :
          /\ running_queries' =
                MapInsert(running_queries, qid[t], RunningQueryHandle(now, PoisonOf(t)))
          /\ registered' = registered \cup {<<PoisonOf(t), qid[t], now>>}
    /\ \E e \in W.endless : endless' = [endless EXCEPT ![t] = e]
    /\ Goto(t, "eval")
    /\ UNCHANGED <<store, relation_store_id, queries_count, flag, timer, allocated,
                   committed, del_calls, killing, not_found, evaluate_args, backup,
                   tx, result, script, idx, cleanups, qid, pending>>

\* RunningQueryCleanup::drop: running_queries.lock() returns.
DropLock(t) ==
    /\ pc[t] = "drop"
    /\ ~LockHeld
    /\ Goto(t, "drop_locked")
    /\ UNCHANGED <<db, history, backup, tx, result, script, idx, cleanups, qid, endless,
                   pending>>

\* RunningQueryCleanup::drop: the entry is removed, its poison set and the
\* MutexGuard dropped; do_run_script goes on.
DropUnlock(t) ==
    /\ pc[t] = "drop_locked"
    /\ LET g == GuardDropped(running_queries, flag, qid[t])
       IN  /\ running_queries' = g.map
           /\ flag' = g.flags
    /\ AfterQuery(t, pending[t])
    /\ UNCHANGED <<store, relation_store_id, queries_count, timer, history, backup>>

\* SysOp::KillRunning: running_queries.lock() returns.
KillLock(t) ==
    /\ pc[t] = "sys_kill"
    /\ ~LockHeld
    /\ Goto(t, "kill_locked")
    /\ UNCHANGED <<db, history, backup, tx, result, script, idx, cleanups, qid, endless,
                   pending>>

\* SysOp::KillRunning: the lookup, the poison, and the MutexGuard is dropped.
KillUnlock(t) ==
    /\ pc[t] = "kill_locked"
    /\ LET r == KillRunning(running_queries, flag, script[t].id)
       IN  /\ running_queries' = r.map
           /\ flag' = r.flags
           /\ Finish(t, Ok(StatusRows(r.status)))
           /\ killing' = IF r.status = "KILLING" /\ Evaluating(script[t].id)
                         THEN killing \cup {script[t].id} ELSE killing
           /\ not_found' = IF r.status = "NOT_FOUND"
                           THEN not_found \cup {script[t].id} ELSE not_found
    /\ UNCHANGED <<store, relation_store_id, queries_count, timer,
                   allocated, registered, committed, del_calls, evaluate_args, backup>>

\* list_running: running_queries.lock() returns.
ListLock(t) ==
    /\ pc[t] = "sys_list"
    /\ ~LockHeld
    /\ Goto(t, "list_locked")
    /\ UNCHANGED <<db, history, backup, tx, result, script, idx, cleanups, qid, endless,
                   pending>>

\* list_running: the rows are collected and the MutexGuard is dropped.
ListUnlock(t) ==
    /\ pc[t] = "list_locked"
    /\ Finish(t, Ok(list_running(running_queries)))
    /\ UNCHANGED <<db, history, backup>>

\* One ::kill or one ::running.
RegistryLoad ==
    [scripts |-> KillRunningOps \cup {ListRunningOp},
     timeouts |-> {FALSE}, endless |-> {FALSE}, times |-> {0}, faults |-> {}]

\* One step of a thread that runs a script of queries, or ::kill or ::running.
LockStep(t, W) ==
    \/ Start(t, W) \/ Open(t, W) \/ Preflight(t) \/ Compile(t, W) \/ Alloc(t)
    \/ InsertLock(t, W) \/ InsertUnlock(t, W) \/ Evaluate(t, W) \/ Assertion(t, W)
    \/ Output(t, W) \/ DropLock(t) \/ DropUnlock(t) \/ Commit(t, W) \/ Cleanup(t, W)
    \/ KillLock(t) \/ KillUnlock(t) \/ ListLock(t) \/ ListUnlock(t)

\* Two callers run queries, which may never finish, while a third thread
\* issues one ::kill or one ::running.
NextLock ==
    \/ \E t \in Callers : LockStep(t, QueryLoad)
    \/ LockStep(Killer, RegistryLoad)

SpecLock == Init /\ [][NextLock]_vars

\* Every thread is scheduled: a step it can take for good, it takes.
FairLock ==
    /\ SpecLock
    /\ \A t \in Callers : WF_vars(LockStep(t, QueryLoad))
    /\ WF_vars(LockStep(Killer, RegistryLoad))

\* Two callers run queries, with and without a timeout, while the timers run
\* and a third thread issues one ::kill.
NextPoison ==
    \/ \E t \in Callers : ScriptStep(t, TimerLoad)
    \/ Start(Killer, KillerLoad)
    \/ SysKillRunning(Killer)
    \/ Timers

SpecPoison == Init /\ [][NextPoison]_vars

(***************************************************************************)
(* explain_compiled. A relational-algebra node is its kind, whether it is  *)
(* the unit relation (a fixed relation only), and its children: none for   *)
(* fixed, load_mem and load_stored, the parent for filter, reorder and     *)
(* unify, left and right for join and neg_join. A row of the table is the  *)
(* stratum, rule_idx, atom_idx and op of the row, and the node it          *)
(* describes, which is the path from the root of its rule to it (None for  *)
(* the row of an output or of an algorithm).                               *)
(***************************************************************************)
MaxDepth == 2

RelLeaf(kind, unit) == [kind |-> kind, unit |-> unit, kids |-> <<>>]

\* The trees of RelAlgebra of depth d at most.
RECURSIVE RelAlgebras(_)
RelAlgebras(d) ==
    LET leaves == {RelLeaf("fixed", TRUE), RelLeaf("fixed", FALSE),
                   RelLeaf("load_mem", FALSE), RelLeaf("load_stored", FALSE)}
    IN  IF d = 0 THEN leaves
        ELSE LET sub == RelAlgebras(d - 1)
             IN  leaves
                 \cup {[kind |-> k, unit |-> FALSE, kids |-> <<p>>] :
                         k \in {"filter", "reorder", "unify"}, p \in sub}
                 \cup {[kind |-> k, unit |-> FALSE, kids |-> <<l, r>>] :
                         k \in {"join", "neg_join"}, l \in sub, r \in sub}

\* RelAlgebra::is_unit
IsUnit(rel) == rel.kind = "fixed" /\ rel.unit

\* The op of the output row of a rule, from its aggregations (None, a meet
\* aggregation or another one for each column of the head).
RECURSIVE AtomType(_, _)
AtomType(aggr, atom_type) ==
    IF aggr = <<>> THEN atom_type
    ELSE AtomType(Tail(aggr),
                  IF Head(aggr) = "none" THEN atom_type
                  ELSE IF Head(aggr) = "meet"
                  THEN (IF atom_type = "out" THEN "meet_aggr_out" ELSE atom_type)
                  ELSE "aggr_out")

\* The while loop over rel_stack: the rows pushed to ret_for_relation.
RECURSIVE ExplainWalk(_, _, _, _, _)
ExplainWalk(rel_stack, ret_for_relation, atom_idx, stratum, clause_idx) ==
    IF rel_stack = <<>> THEN ret_for_relation
    ELSE LET top == rel_stack[Len(rel_stack)]
             rest == SubSeq(rel_stack, 1, Len(rel_stack) - 1)
             rel == top.rel
             Kid(i) == [rel |-> rel.kids[i], path |-> Append(top.path, i)]
             row == [stratum |-> stratum, rule_idx |-> clause_idx, atom_idx |-> atom_idx,
                     op |-> rel.kind, rel |-> Some(top.path)]
         IN  IF rel.kind = "fixed" /\ IsUnit(rel)
             THEN ExplainWalk(rest, ret_for_relation, atom_idx, stratum, clause_idx)
             ELSE IF rel.kind = "join" /\ IsUnit(rel.kids[1])
             THEN ExplainWalk(Append(rest, Kid(2)), ret_for_relation, atom_idx, stratum,
                              clause_idx)
             ELSE ExplainWalk(IF Len(rel.kids) = 2 THEN rest \o <<Kid(1), Kid(2)>>
                              ELSE IF Len(rel.kids) = 1 THEN Append(rest, Kid(1))
                              ELSE rest,
                              Append(ret_for_relation, row), atom_idx + 1, stratum, clause_idx)

\* Vec::reverse
Reverse(q) == [i \in 1..Len(q) |-> q[Len(q) + 1 - i]]

\* ExplainRule, the rows in the order the walk pushed them.
ExplainRuleUnreversed(rule, stratum, clause_idx) ==
    ExplainWalk(<<[rel |-> rule.relation, path |-> <<>>]>>,
                <<[stratum |-> stratum, rule_idx |-> clause_idx, atom_idx |-> 0,
                   op |-> AtomType(rule.aggr, "out"), rel |-> None]>>,
                1, stratum, clause_idx)

\* The rows of one CompiledRule: the output row is pushed, then the rows of
\* the walk from the relation of the rule, and the rows are reversed.
ExplainRule(rule, stratum, clause_idx) ==
    Reverse(ExplainWalk(<<[rel |-> rule.relation, path |-> <<>>]>>,
                        <<[stratum |-> stratum, rule_idx |-> clause_idx, atom_idx |-> 0,
                           op |-> AtomType(rule.aggr, "out"), rel |-> None]>>,
                        1, stratum, clause_idx))

\* The rules of a rule set, the last rule before them being clause_idx.
RECURSIVE ExplainRules(_, _, _)
ExplainRules(rules, stratum, clause_idx) ==
    IF rules = <<>> THEN <<>>
    ELSE ExplainRule(Head(rules), stratum, clause_idx + 1)
            \o ExplainRules(Tail(rules), stratum, clause_idx + 1)

\* The rule sets of a stratum: the rules of each, or the one row of an
\* algorithm.
RECURSIVE ExplainStratum(_, _, _)
ExplainStratum(p, stratum, clause_idx) ==
    IF p = <<>> THEN <<>>
    ELSE IF Head(p).kind = "Rules"
    THEN ExplainRules(Head(p).rules, stratum, clause_idx)
            \o ExplainStratum(Tail(p), stratum, clause_idx + Len(Head(p).rules))
    ELSE <<[stratum |-> stratum, rule_idx |-> 0, atom_idx |-> 0, op |-> "algo",
            rel |-> None]>>
            \o ExplainStratum(Tail(p), stratum, clause_idx)

\* The strata from the one numbered stratum on.
RECURSIVE ExplainStrata(_, _)
ExplainStrata(strata, stratum) ==
    IF strata = <<>> THEN <<>>
    ELSE ExplainStratum(Head(strata), stratum, -1)
            \o ExplainStrata(Tail(strata), stratum + 1)

explain_compiled(strata) == ExplainStrata(strata, 0)

\* Compiled programs: one rule of any aggregations over any tree; and two
\* strata, the first of a rule set of two rules and an algorithm, the second
\* of one rule.
AlgoRuleSet == [kind |-> "Algo", rules |-> <<>>]
RuleSet(rules) == [kind |-> "Rules", rules |-> rules]
Aggrs == SeqsUpTo({"none", "meet", "normal"}, 2)
CompiledPrograms ==
    {<<<<RuleSet(<<[aggr |-> a, relation |-> r]>>)>>>> :
        a \in Aggrs, r \in RelAlgebras(MaxDepth)}
    \cup {<<<<RuleSet(<<[aggr |-> <<>>, relation |-> r1],
                        [aggr |-> <<"meet">>, relation |-> r2]>>), AlgoRuleSet>>,
            <<RuleSet(<<[aggr |-> <<"normal">>, relation |-> r3]>>)>>>> :
            r1 \in RelAlgebras(1), r2 \in RelAlgebras(0), r3 \in RelAlgebras(0)}

\* explain_compiled gives the table of a compiled program.
ExplainCompiled(t) ==
    /\ pc[t] = "idle"
    /\ script[t].kind = "Explain"
    /\ pc' = [pc EXCEPT ![t] = "done"]
    /\ result' = [result EXCEPT ![t] = Ok(explain_compiled(script[t].strata))]
    /\ UNCHANGED <<db, history, backup, script, idx, tx, cleanups, qid, endless, pending>>

\* The first caller is given a compiled program.
InitExplain ==
    /\ InitDb
    /\ \E p \in CompiledPrograms :
          script = [t \in Threads |->
                       IF t = 1 THEN [kind |-> "Explain", strata |-> p] ELSE NoScript]

NextExplain == \E t \in Callers : ExplainCompiled(t)

SpecExplain == InitExplain /\ [][NextExplain]_vars

\* Scripts whose statements may fail before they are registered (a Put into
\* a relation no catalog has, a compilation, a set_timeout), beside ::running,
\* ::kill and ::remove.
AdmissionLoad ==
    [scripts |-> MultiScripts({"none", "Put", "Create"})
                    \cup {ListRunningOp, RemoveRelationOp} \cup KillRunningOps,
     timeouts |-> BOOLEAN, endless |-> {FALSE}, times |-> {0},
     faults |-> {"compile", "set_timeout", "clock"}]

NextAdmission ==
    \/ \E t \in Callers :
          \/ ScriptStep(t, AdmissionLoad)
          \/ RemoveStep(t, AdmissionLoad)
          \/ RegistryStep(t)
    \/ Timers

SpecAdmission == Init /\ [][NextAdmission]_vars

\* Scripts of statements with and without an assertion, which may fail, that
\* give their rows to the caller or replace the stored relation with them.
AssertLoad ==
    [scripts |-> MultiScripts({"none", "Replace"}),
     timeouts |-> {FALSE}, endless |-> {FALSE}, times |-> {0}, faults |-> {"assert"}]

NextAssert == \E t \in Callers : ScriptStep(t, AssertLoad)

SpecAssert == Init /\ [][NextAssert]_vars

\* The threads of the callers are scheduled, and a detached timer thread wakes
\* up once its sleep is over.
FairTimer ==
    /\ SpecTimer
    /\ \A t \in Callers : WF_vars(ScriptStep(t, TimerLoad))
    /\ \A p \in PoisonRefs : WF_vars(TimerFire(p))

(***************************************************************************)
(* The claims.                                                             *)
(***************************************************************************)
\* What run_script returned to thread t is an error.
ErrorReturned(t) == result[t].code \notin {"none", "ok", "panic"}
\* The committed store holds a row that a statement of thread t wrote.
Wrote(t) == \E r \in store.rows : r[2][1] = t

\* C1 as stated: whenever run_script returns an error for a script of
\* statements, none of the writes of the script is in the committed store.
\* (Only a script of statements writes rows.)
C1_AnyErrorNothingCommitted ==
    \A t \in Threads : ErrorReturned(t) => ~Wrote(t)

\* C1, amended: whenever run_script returns an error other than that of a
\* del_range after the commit (an error of a statement or of commit_tx), the
\* session was dropped uncommitted and no write of the script, of a statement
\* that succeeded either, is in the committed store.
C1_ErrorUpToCommitNothingCommitted ==
    \A t \in Threads :
        ErrorReturned(t) /\ result[t].code # "del_range_error"
            => t \notin committed /\ ~Wrote(t)

\* A script whose statements wrote (a relation id was allocated) fails at the
\* commit, alone, and the store is as empty as before.
C1_Witness ==
    \E t \in Threads :
        /\ result[t].code = "commit_error"
        /\ relation_store_id > 0
        /\ store = EmptyStore
        /\ \A u \in Threads \ {t} : pc[u] = "idle"

\* C2: a thread calls del_range only after the commit_tx of its own session
\* has succeeded; an invocation that returns the error of a statement or of
\* the commit has called del_range not once.
C2_DelRangeOnlyAfterCommit ==
    \A t \in Threads :
        /\ del_calls[t] > 0 => t \in committed
        /\ ErrorReturned(t) /\ result[t].code # "del_range_error" => del_calls[t] = 0

\* An invocation has committed, deleted a range and returned its result.
C2_Witness ==
    \E t \in Threads : del_calls[t] > 0 /\ t \in committed /\ result[t].code = "ok"

\* Thread t is inside run_query for a statement of its script.
InStatement(t) ==
    pc[t] \in {"preflight", "compile", "alloc", "insert", "eval", "assert", "output", "drop"}
\* Thread t is inside the block of do_run_script that owns the session.
InSession(t) == InStatement(t) \/ pc[t] = "commit"

\* C3: while a script of statements runs, from its first statement to its
\* commit, its one session is open and is writable exactly if some statement
\* of the script has a store-relation directive: the mode is that of the whole
\* script at every statement, whichever statement runs.
C3_WritableIffAnyStoreDirective ==
    \A t \in Threads :
        InSession(t) =>
            /\ tx[t].open
            /\ tx[t].writable <=> \E k \in 1..Len(script[t].ps) : script[t].ps[k] # "none"

\* One script is at its second statement, the only one with a directive, in a
\* writable session; another is at its second statement, with no directive in
\* the script, in a read-only session.
C3_Witness ==
    \E t, u \in Threads :
        /\ InStatement(t) /\ idx[t] = 2 /\ script[t].ps = <<"none", "Replace">>
        /\ tx[t].writable
        /\ InStatement(u) /\ idx[u] = 2 /\ script[u].ps = <<"none", "none">>
        /\ ~tx[u].writable

\* The statements of thread t before the one it is at that wrote rows.
EarlierWrites(t) == {k \in 1..(idx[t] - 1) : script[t].ps[k] # "none"}

\* C4: the statements of a script run in source order on one session: a
\* thread goes on to statement k+1 only from statement k, when run_query has
\* returned for it with success, and the session at statement k+1 shows the
\* row of every statement 1..k of the script that wrote one.
C4_SourceOrderSeesEarlierWrites ==
    [][\A t \in Threads :
          /\ idx'[t] # idx[t] =>
                \/ idx'[t] = 0
                \/ idx[t] = 0 /\ idx'[t] = 1 /\ pc[t] = "open"
                \/ /\ idx'[t] = idx[t] + 1
                   /\ pc[t] = "drop" /\ pending[t].res = "ok" /\ pc'[t] = "preflight"
          /\ InStatement(t)' =>
                (\A k \in EarlierWrites(t) :
                    \E r \in ViewRows(tx[t], store) : r[2] = <<t, k>>)'
      ]_vars

\* A script is at its second statement, its first has written a row, and the
\* row is in the session only, not in the committed store.
C4_Witness ==
    \E t \in Threads :
        /\ pc[t] = "eval" /\ idx[t] = 2 /\ script[t].ps[1] = "Replace"
        /\ \E r \in tx[t].rows : r[2] = <<t, 1>>
        /\ ~Wrote(t)

\* The rows of ::running hold a row for id.
Lists(rows, id) == \E j \in 1..Len(rows) : rows[j][1] = id

\* C5: the step of ::kill id answers KILLING, as a result and not an error,
\* and sets the poison of the entry when the registry holds id; it answers
\* NOT_FOUND, as a result too, and sets no poison when the registry does not;
\* either way the registry is after the step what it was before.
C5_KillRunningStatusAndRegistry ==
    [][\A t \in Threads :
          pc[t] = "sys_kill" /\ pc'[t] # "sys_kill" =>
              LET id == script[t].id
              IN  /\ running_queries' = running_queries
                  /\ IF id \in DOMAIN running_queries
                     THEN /\ result'[t] = Ok(StatusRows("KILLING"))
                          /\ flag' = [flag EXCEPT ![running_queries[id].poison] = TRUE]
                     ELSE /\ result'[t] = Ok(StatusRows("NOT_FOUND"))
                          /\ flag' = flag
      ]_vars

\* ::kill has answered KILLING for a statement that is being evaluated: its
\* poison is set and its entry is still in the registry.
C5_Witness ==
    \E t, u \in Threads :
        /\ result[t] = Ok(StatusRows("KILLING"))
        /\ pc[u] = "eval" /\ flag[PoisonOf(u)]
        /\ qid[u] \in DOMAIN running_queries
        /\ qid[u] \in killing

\* C6: once ::kill id has answered KILLING while the statement registered
\* under id was in its evaluation, the poison of the statement is set, the
\* statement gets no further than the next probe (it never reaches the
\* assertion, the output or the commit, and leaves run_query with
\* eval::killed), its run_script call returns eval::killed with nothing
\* committed, and from then on ::running does not list id.
C6_KilledInEvaluation ==
    \A e \in registered :
        e[2] \in killing =>
            LET u == e[1][1]
            IN  /\ flag[e[1]]
                /\ u \notin committed /\ ~Wrote(u)
                /\ \/ pc[u] = "eval" /\ PoisonOf(u) = e[1]
                   \/ pc[u] = "drop" /\ PoisonOf(u) = e[1]
                         /\ pending[u] = QueryErr("eval::killed")
                   \/ /\ pc[u] = "done"
                      /\ result[u] = Err("eval::killed")
                      /\ ~Lists(list_running(running_queries), e[2])

\* The run_script call of a statement that was killed in its evaluation has
\* returned eval::killed, the second statement of its script not begun.
C6_Witness ==
    \E e \in registered :
        /\ e[2] \in killing
        /\ e[1][2] = 1
        /\ pc[e[1][1]] = "done"
        /\ result[e[1][1]] = Err("eval::killed")
        /\ \E t \in Threads : result[t] = Ok(StatusRows("KILLING"))

\* C7: a statement whose timer was armed and whose evaluation does not end
\* by itself is aborted in the end: the timer sets the poison, the next probe
\* fails, and run_script returns the error eval::killed.
C7_TimeoutKillsEndlessEvaluation ==
    \A t \in Threads :
        (pc[t] = "eval" /\ endless[t] /\ timer[PoisonOf(t)] # "none")
            ~> (result[t] = Err("eval::killed"))

\* The timer of a statement has fired and the run_script call of the
\* statement has returned eval::killed.
C7_Witness ==
    \E p \in PoisonRefs :
        /\ timer[p] = "fired" /\ flag[p]
        /\ result[p[1]] = Err("eval::killed")

\* Thread t holds the guard of the statement it is at: the handle has been
\* inserted and run_query has not yet returned.
Guarded(t) == pc[t] \in {"eval", "assert", "output", "drop"}

\* C8: the entry of every statement that was registered and whose run_query
\* has returned, with a result, with an error or killed, is out of the
\* registry, and its poison is set.
C8_ReturnedThenRemovedAndPoisoned ==
    \A e \in registered :
        ~(Guarded(e[1][1]) /\ PoisonOf(e[1][1]) = e[1]) =>
            /\ e[2] \notin DOMAIN running_queries
            /\ flag[e[1]]

\* A first statement has returned with success and the script is at its
\* second; a statement of the other thread has returned with an error.
C8_Witness ==
    \E e, f \in registered :
        /\ e[1] = <<1, 1>> /\ InStatement(1) /\ idx[1] = 2
        /\ e[2] \notin DOMAIN running_queries /\ flag[e[1]]
        /\ f[1][1] = 2 /\ result[2] = Err("eval_error")
        /\ f[2] \notin DOMAIN running_queries /\ flag[f[1]]

\* C9: as long as a thread holds the guard of a statement, the evaluation
\* included, ::running has a row of the id of the statement and the text of
\* the started_at it was registered with, and ::kill of the id answers KILLING.
C9_ObservableWhileGuarded ==
    \A t \in Threads :
        Guarded(t) =>
            /\ \E e \in registered :
                  /\ e[1] = PoisonOf(t) /\ e[2] = qid[t]
                  /\ \E j \in 1..Len(list_running(running_queries)) :
                        list_running(running_queries)[j] = <<qid[t], FormatDebug(e[3])>>
            /\ KillRunning(running_queries, flag, qid[t]).status = "KILLING"

\* Two statements registered at different times are both in their evaluation.
C9_Witness ==
    /\ \A t \in Callers : pc[t] = "eval"
    /\ Len(list_running(running_queries)) = 2
    /\ list_running(running_queries)[1][2] # list_running(running_queries)[2][2]

\* C10: the ids fetch_add gives grow strictly in the order it gives them, no
\* two statements are registered under one id, and the id a statement is
\* about to be registered under is not in the registry.
C10_IdsUniqueAndIncreasing ==
    /\ \A i, j \in 1..Len(allocated) : i < j => allocated[i] < allocated[j]
    /\ \A e, f \in registered : e[2] = f[2] => e[1] = f[1]
    /\ \A t \in Threads : pc[t] = "insert" => qid[t] \notin DOMAIN running_queries

\* The statements of two scripts were registered in turns, and one more id
\* is given while the registry holds an entry.
C10_Witness ==
    /\ \E a, b, c \in registered :
          /\ a[1] = <<1, 1>> /\ b[1] = <<2, 1>> /\ c[1] = <<1, 2>>
          /\ a[2] < b[2] /\ b[2] < c[2]
    /\ pc[2] = "insert"
    /\ running_queries # <<>>

\* The statement registered as e has finished: its guard is dropped.
Finished(e) == ~(Guarded(e[1][1]) /\ PoisonOf(e[1][1]) = e[1])

\* C11: a step of ::kill id changes the poison of no statement but the one
\* registered under id, and answers NOT_FOUND, changing no poison at all, when
\* that statement has finished; and no run_script call returns eval::killed
\* unless ::kill answered KILLING for the id of a statement of its own script
\* that was in its evaluation (no timer is armed under this workload).
C11_KillAffectsOnlyItsStatement ==
    [][/\ \A t \in Threads :
            pc[t] = "sys_kill" /\ pc'[t] # "sys_kill" =>
                LET id == script[t].id
                IN  /\ \A p \in PoisonRefs :
                          flag'[p] # flag[p] => \E e \in registered : e[1] = p /\ e[2] = id
                    /\ (\E e \in registered : e[2] = id /\ Finished(e)) =>
                          /\ result'[t] = Ok(StatusRows("NOT_FOUND"))
                          /\ flag' = flag
       /\ (\A u \in Threads :
              result[u] = Err("eval::killed") =>
                  \E e \in registered : e[1][1] = u /\ e[2] \in killing)'
      ]_vars

\* ::kill has answered NOT_FOUND for the id of a statement that had finished;
\* the next statement of that script, registered later, and a statement of
\* another script, registered earlier, are in their evaluations with their
\* poisons not set.
C11_Witness ==
    \E e, f, g \in registered :
        /\ e[1][1] = f[1][1] /\ e[1][2] = 1 /\ f[1][2] = 2
        /\ g[1][1] # e[1][1] /\ g[2] < e[2]
        /\ e[2] \in not_found /\ e[2] \notin killing
        /\ pc[e[1][1]] = "eval" /\ PoisonOf(e[1][1]) = f[1]
        /\ pc[g[1][1]] = "eval" /\ PoisonOf(g[1][1]) = g[1]
        /\ ~flag[f[1]] /\ ~flag[g[1]]

\* ::kill has answered KILLING for a statement in its evaluation, which is
\* on its way out with eval::killed, while the statement of another script,
\* in the registry at the same time, has come to its result.
C11_WitnessKilledBesideAnother ==
    \E e, g \in registered :
        /\ e[1][1] # g[1][1]
        /\ e[2] \in killing /\ g[2] \notin killing
        /\ pc[e[1][1]] = "drop" /\ PoisonOf(e[1][1]) = e[1]
        /\ pc[g[1][1]] = "drop" /\ PoisonOf(g[1][1]) = g[1]
        /\ pending[g[1][1]].res = "ok"

\* C12: a statement with a Create directive that finds its relation existing
\* at the pre-flight ends there with eval::stored_relation_conflict: it is not
\* compiled, no running-query id is given, the registry, the relation ids and
\* the store stay as they are, and the session is dropped with its writes.
C12_CreateConflictInPreflight ==
    [][\A t \in Threads :
          /\ pc[t] = "preflight" /\ Stmt(t) = "Create" /\ RelationExists(tx[t], store)
          /\ pc'[t] # pc[t]
          => /\ pc'[t] = "done"
             /\ result'[t] = Err("eval::stored_relation_conflict")
             /\ queries_count' = queries_count /\ allocated' = allocated
             /\ running_queries' = running_queries /\ registered' = registered
             /\ relation_store_id' = relation_store_id
             /\ store' = store /\ tx'[t] = NoTx
      ]_vars

\* A script creates the relation and creates it again: the second statement
\* fails on the relation that exists in its session only, its one id given to
\* the first statement, and nothing is in the store.
C12_Witness ==
    \E t \in Threads :
        /\ result[t] = Err("eval::stored_relation_conflict")
        /\ allocated = <<0>> /\ registered = {<<<<t, 1>>, 0, 0>>}
        /\ relation_store_id = 1
        /\ store = EmptyStore

\* C13 as stated: a statement with a Put, Rm, Ensure or EnsureNot directive
\* that finds no relation of its name at the pre-flight ends there with
\* eval::stored_relation_not_found.
C13_MutationOfMissingIsNotFound ==
    [][\A t \in Threads :
          /\ pc[t] = "preflight" /\ Stmt(t) \in {"Put", "Rm", "Ensure", "EnsureNot"}
          /\ ~RelationExists(tx[t], store)
          /\ pc'[t] # pc[t]
          => result'[t] = Err("eval::stored_relation_not_found")
      ]_vars

\* A script whose first statement puts into a relation that was never
\* created has returned the error of get_relation; no id was given.
C13_Witness ==
    \E t \in Threads :
        /\ result[t] = Err("get_relation_error")
        /\ store = EmptyStore /\ relation_store_id = 0 /\ allocated = <<>>

\* The query thread t was given has come to its outcome.
Answered(t) == pc[t] = "done" /\ script[t].kind = "Query"

\* C14: a statement with AssertNone fails with eval::assert_none_failure
\* exactly if the result of its evaluation has a tuple, and the failure carries
\* the first tuple of the scan; a statement with AssertSome fails with
\* eval::assert_some_failure exactly if the result has no tuple; a statement
\* that does not fail so succeeds, with the rows of its output.
C14_AssertionOutcome ==
    \A t \in Threads :
        Answered(t) =>
            LET q == script[t].out_opts
                scan_all == script[t].res.all
                r == result[t]
            IN  /\ r.code = "eval::assert_none_failure"
                      <=> q.assertion = "AssertNone" /\ Len(scan_all) >= 1
                /\ r.code = "eval::assert_none_failure" => r.rows = <<scan_all[1]>>
                /\ r.code = "eval::assert_some_failure"
                      <=> q.assertion = "AssertSome" /\ Len(scan_all) = 0
                /\ r.code \notin {"eval::assert_none_failure", "eval::assert_some_failure"}
                      => r = Ok(OutputRows(q, script[t].res))

\* AssertNone has failed on a result of several tuples, carrying the first
\* of the scan, which is not the least.
C14_Witness ==
    \E t \in Threads :
        /\ Answered(t)
        /\ script[t].out_opts.assertion = "AssertNone"
        /\ script[t].res.all = <<2, 1, 3>>
        /\ result[t] = [code |-> "eval::assert_none_failure", rows |-> <<2>>]

\* The tuple at position i (from 1) of the tuples of scan in the order dir.
Ranked(scan, dir, i) ==
    LET S == {scan[j] : j \in 1..Len(scan)}
    IN  CHOOSE x \in S :
            Cardinality({y \in S : IF dir = "asc" THEN y < x ELSE y > x}) = i - 1

\* C15: with a sorter, the rows given out are those at the positions
\* offset .. offset+limit-1 (counted from 0) of the whole result in sorted
\* order, as far as there are any: all of the result is sorted, offset rows
\* are left out, and at most limit rows are taken (all, without a limit).
C15_SortThenOffsetThenLimit ==
    \A t \in Threads :
        Answered(t) /\ script[t].out_opts.sorters # <<>> /\ result[t].code = "ok" =>
            LET q == script[t].out_opts
                scan == script[t].res.all
                offset == UnwrapOr(q.offset, 0)
                left == IF Len(scan) > offset THEN Len(scan) - offset ELSE 0
                count == IF q.limit # None /\ q.limit[1] < left THEN q.limit[1] ELSE left
            IN  /\ Len(result[t].rows) = count
                /\ \A i \in 1..count :
                      result[t].rows[i] = Ranked(scan, q.sorters[1], offset + i)

\* Of the result 1, 3, 2, sorted downwards, with offset 1 and limit 1, the
\* row given out is 2: neither the first of the scan nor the first sorted.
C15_Witness ==
    \E t \in Threads :
        /\ Answered(t)
        /\ script[t].out_opts =
              [assertion |-> "AssertSome", sorters |-> <<"desc">>,
               offset |-> Some(1), limit |-> Some(1)]
        /\ script[t].res.all = <<1, 3, 2>>
        /\ result[t] = Ok(<<2>>)

(***************************************************************************)
(* C16: import_relations is all-or-nothing. The committed store changes    *)
(* only in the step in which a call of import_relations returns Ok, and    *)
(* then by the puts and deletes of the whole payload at once; a call whose *)
(* payload has a failing entry (a relation the catalog does not have, a    *)
(* column missing without a default, a shape that is neither an array nor  *)
(* an object, a row too short, a value that cannot be coerced) returns an  *)
(* error and commits nothing.                                              *)
(***************************************************************************)
Importing(t) == pc[t] = "import"
C16_ImportAllOrNothing ==
    [][/\ store' # store =>
            \E t \in Callers :
                /\ Importing(t) /\ pc'[t] = "done" /\ result'[t].code = "ok"
                /\ ImportFrom(NewTx(TRUE), store, script[t].data, 1).err = "ok"
                /\ store' = CommitTx(ImportFrom(NewTx(TRUE), store, script[t].data, 1).v,
                                     store)
       /\ \A t \in Callers :
            Importing(t) /\ pc'[t] = "done" =>
                /\ result'[t].code = "ok" => t \in committed'
                /\ result'[t].code # "ok" => store' = store /\ t \notin committed'
                /\ ImportFrom(NewTx(TRUE), store, script[t].data, 1).err # "ok"
                       => result'[t].code # "ok"]_vars

\* A call has returned "row too short" for the second row of its table after
\* the first row (key 1, value "b") had been put in its session: the store
\* does not hold that row, while the other call has committed its payload.
C16_Witness ==
    /\ result[1].code = "row_too_short"
    /\ 1 \notin committed
    /\ <<1, <<<<"Int", 1>>>>, <<<<"Str", "b">>>>>> \notin store.rows
    /\ result[2].code = "ok"
    /\ 2 \in committed
    /\ store.rows # {}

C18_RefusesIffDestinationHasRelations ==
    [][\A t \in Callers :
         pc[t] = "idle" /\ pc'[t] # "idle" =>
            /\ store' = store
            /\ relation_store_id # 0 => result'[t] = Err("restore_refused")
            /\ relation_store_id = 0 => result'[t] # Err("restore_refused")]_vars

\* restore_backup has refused although the database it was called on has
\* never held a relation: the file holds one.
C18_Witness ==
    /\ result[1] = Err("restore_refused")
    /\ relation_store_id = 0
    /\ store = EmptyStore
    /\ backup.last_id # 0

(***************************************************************************)
(* C19 as stated: once backup_db of a database into a new file has         *)
(* returned Ok and restore_backup of the file into a database without a    *)
(* relation has returned after it, the committed store of that database    *)
(* holds exactly the pairs of the database backed up.                      *)
(***************************************************************************)
C19_RestoredEqualsBackedUp ==
    \A t \in Restorers :
        /\ pc[1] = "done" /\ result[1].code = "ok"
        /\ pc[t] = "done" /\ result[t].code = "ok"
        => TotalScan(store) = TotalScan(script[1].db)

\* The backup of a database of two rows and the restore of its file have
\* both returned Ok, and the database restored into holds no row.
C19_Witness ==
    /\ pc[1] = "done" /\ result[1].code = "ok"
    /\ pc[2] = "done" /\ result[2].code = "ok"
    /\ Cardinality(script[1].db.rows) = 2
    /\ store = EmptyStore
    /\ backup = EmptyFile

(***************************************************************************)
(* C20: the cleanup ranges a script has accumulated, and those a statement *)
(* is about to return, are non-empty only if the session of the script is  *)
(* writable, that is, only if a statement of the script has a store        *)
(* directive; the assertion after the commit of a read-only session never  *)
(* fails.                                                                  *)
(***************************************************************************)
C20_CleanupsOnlyWhenWritable ==
    \A t \in Threads :
        /\ cleanups[t] # <<>> \/ pending[t].clean_ups # <<>> =>
              /\ script[t].kind = "Multi"
              /\ \E k \in 1..Len(script[t].ps) : script[t].ps[k] # "none"
              /\ tx[t].open => tx[t].writable
        /\ result[t].code # "panic"

\* A script whose first statement has no store directive is about to commit
\* its writable session with the range of the relation its second statement
\* replaced.
C20_Witness ==
    /\ pc[1] = "commit"
    /\ script[1].ps = <<"none", "Replace">>
    /\ tx[1].writable
    /\ cleanups[1] = <<Range(store.cat)>>
    /\ store.cat # 0

(***************************************************************************)
(* C21: when import_from_backup commits, every row it has written lies in  *)
(* the key range of the destination relation and in the range of no other  *)
(* id, and the rows of the destination relation are then those of the      *)
(* source relation, key and value contents unchanged, together with the    *)
(* rows the destination already held under other keys.                     *)
(***************************************************************************)
Copying(t) == pc[t] = "from_backup" /\ script[t].relations = <<RelationName>>
Pending(t) ==
    IF pc[t] \in {"cleanup", "rm_cleanup"}
    THEN {cleanups[t][i] : i \in DOMAIN cleanups[t]}
    ELSE {}
C22_CleanupRangesAreDead ==
    [][/\ \A t \in Threads : \A rg \in Pending(t)' :
            store'.cat # 0 => ~InRange(<<store'.cat>>, rg)
       /\ \A r \in store.rows \ store'.rows :
            /\ r[1] # store.cat
            /\ store'.cat = store.cat]_vars

\* A script has committed the replacement of the relation of id 1 and has
\* not yet cleaned its range: the catalog names another id, and the rows of
\* the old one are still in the store.
C22_Witness ==
    /\ pc[1] = "cleanup"
    /\ cleanups[1] = <<Range(1)>>
    /\ store.cat \notin {0, 1}
    /\ \E r \in store.rows : r[1] = 1

(***************************************************************************)
(* C23 as stated: the allocation of a running-query id and the insertion   *)
(* of its entry are one atomic step: while a statement holds an id that is *)
(* not yet inserted, no other thread lists the registry, kills, allocates  *)
(* an id or inserts an entry.                                              *)
(***************************************************************************)
C23_RegistrationIsAtomic ==
    [][\A t, u \in Callers :
         t # u /\ pc[t] = "insert" =>
            ~(pc[u] \in {"sys_list", "sys_kill", "alloc", "insert"} /\ pc'[u] # pc[u])]_vars

\* ::kill 0 has answered NOT_FOUND while a statement holds the id 0, which
\* fetch_add has given it, and has not yet inserted its entry.
C23_Witness ==
    /\ pc[1] = "insert"
    /\ qid[1] = 0
    /\ allocated = <<0>>
    /\ 0 \in not_found
    /\ result[2] = Ok(StatusRows("NOT_FOUND"))

(***************************************************************************)
(* C24 as stated: a statement with a Replace, Put, Rm, Ensure or EnsureNot *)
(* directive that finds no relation of its name at the pre-flight fails    *)
(* there, before it is compiled.                                           *)
(***************************************************************************)
C24_NonCreateRequiresExistence ==
    [][\A t \in Callers :
         /\ pc[t] = "preflight"
         /\ Stmt(t) \in {"Replace", "Put", "Rm", "Ensure", "EnsureNot"}
         /\ ~RelationExists(tx[t], store)
         /\ pc'[t] # pc[t]
         => pc'[t] = "done" /\ ErrorReturned(t)'
      ]_vars

(***************************************************************************)
(* C24 amended: a statement with a Put, Rm, Ensure or EnsureNot directive  *)
(* passes the pre-flight only if its relation exists, and otherwise, or if *)
(* ensure_compatible fails, returns its error there, without an id, a      *)
(* registry entry or a write; a statement with a Replace directive always  *)
(* passes the pre-flight, whether its relation exists or not.              *)
(***************************************************************************)
C24_MutationsRequireExistenceReplaceDoesNot ==
    [][\A t \in Callers :
         pc[t] = "preflight" /\ pc'[t] # pc[t] =>
            /\ Stmt(t) \in {"Put", "Rm", "Ensure", "EnsureNot"} =>
                  /\ pc'[t] = "compile" => RelationExists(tx[t], store)
                  /\ ~RelationExists(tx[t], store) =>
                        /\ pc'[t] = "done" /\ ErrorReturned(t)'
                        /\ allocated' = allocated /\ registered' = registered
                        /\ store' = store /\ tx'[t] = NoTx
                  /\ result'[t] = Err("incompatible_relation") =>
                        /\ RelationExists(tx[t], store)
                        /\ allocated' = allocated /\ store' = store
            /\ Stmt(t) = "Replace" => pc'[t] = "compile"
            /\ result'[t] = Err("incompatible_relation") =>
                  Stmt(t) \in {"Put", "Rm", "Ensure", "EnsureNot"}
      ]_vars

\* A statement that replaces a relation no catalog has is past its
\* pre-flight, and a Put into a relation its own script has created has
\* failed on ensure_compatible.
C24_Witness ==
    /\ pc[1] = "compile"
    /\ script[1].ps = <<"Replace">>
    /\ ~RelationExists(tx[1], store)
    /\ result[2] = Err("incompatible_relation")
    /\ allocated = <<0>>

\* C25: a probe of the poison fails, with eval::killed, exactly when the flag
\* is set at the time of the probe; the handle in the registry holds a clone
\* of the poison the evaluation probes, so the flag ::kill sets through the
\* handle is the flag the next probe reads.
C25_CheckFailsIffFlagSet ==
    [][\A t \in Callers :
         pc[t] = "eval" /\ pc'[t] # "eval" =>
            /\ (pc'[t] = "drop" /\ pending'[t] = QueryErr("eval::killed"))
                  <=> flag[PoisonOf(t)]
            /\ qid[t] \in DOMAIN running_queries
            /\ running_queries[qid[t]].poison = PoisonOf(t)
            /\ qid[t] \in killing => flag[PoisonOf(t)]
      ]_vars

\* ::kill has set the flag through the handle of the registry, and the probe
\* of the evaluation has failed on it: run_query is about to return.
C25_Witness ==
    \E t \in Callers :
        /\ pc[t] = "drop"
        /\ pending[t] = QueryErr("eval::killed")
        /\ qid[t] \in killing
        /\ flag[PoisonOf(t)]
        /\ \E u \in Threads : result[u] = Ok(StatusRows("KILLING"))

\* C26: the evaluator is handed the limit and the offset of the statement
\* when the statement has no sorter, and no limit and no offset when it has
\* one; with a sorter the limit and the offset act on the sorted rows of the
\* whole result only.
C26_PushDownIffNoSorters ==
    \A t \in Threads :
        Answered(t) =>
            LET q == script[t].out_opts
            IN  /\ q.sorters = <<>> =>
                      evaluate_args[t] = [limit |-> q.limit, offset |-> q.offset]
                /\ q.sorters # <<>> =>
                      /\ evaluate_args[t] = [limit |-> None, offset |-> None]
                      /\ result[t].code = "ok" =>
                            result[t].rows =
                                Take(Skip(SortAndCollect(script[t].res.all, q.sorters[1]),
                                          UnwrapOr(q.offset, 0)),
                                     UnwrapOr(q.limit, MaxRows))

\* A statement with a sorter, a limit and an offset has been evaluated
\* without either, and has given out the second of its rows in sorted order.
C26_Witness ==
    \E t \in Threads :
        /\ Answered(t)
        /\ script[t].out_opts.limit = Some(1) /\ script[t].out_opts.offset = Some(1)
        /\ script[t].out_opts.sorters = <<"asc">>
        /\ evaluate_args[t] = [limit |-> None, offset |-> None]
        /\ script[t].res.all = <<3, 1, 2>>
        /\ result[t] = Ok(<<2>>)

\* C27: the rows of a statement without a sorter that succeeds are the
\* early-return scan, as it is, when the evaluator has signalled an early
\* return; otherwise, with a limit or an offset, the rows of the full scan
\* from position offset on (0 without an offset), at most limit of them (all
\* without a limit); otherwise the full scan.
C27_RowSourceWithoutSorters ==
    \A t \in Threads :
        Answered(t) /\ script[t].out_opts.sorters = <<>> /\ result[t].code = "ok" =>
            LET q == script[t].out_opts
                res == script[t].res
                rows == result[t].rows
                offset == UnwrapOr(q.offset, 0)
                left == IF Len(res.all) > offset THEN Len(res.all) - offset ELSE 0
                count == IF q.limit # None /\ q.limit[1] < left THEN q.limit[1] ELSE left
            IN  IF res.early_return THEN rows = res.early
                ELSE IF q.limit # None \/ q.offset # None
                THEN /\ Len(rows) = count
                     /\ \A i \in 1..count : rows[i] = res.all[offset + i]
                ELSE rows = res.all

\* The evaluator has signalled an early return with the one row 2 of the
\* result 1, 2, 3 for a statement with offset 1 and limit 1: the row is given
\* out, the offset not taken from it again.
C27_Witness ==
    \E t \in Threads :
        /\ Answered(t)
        /\ script[t].out_opts.sorters = <<>>
        /\ script[t].out_opts.offset = Some(1) /\ script[t].out_opts.limit = Some(1)
        /\ script[t].res = [all |-> <<1, 2, 3>>, early_return |-> TRUE, early |-> <<2>>]
        /\ result[t] = Ok(<<2>>)

(***************************************************************************)
(* C28: the mutex of running_queries is held by one thread at most, and    *)
(* only between the lock() and the end of one insert, one removal, one     *)
(* lookup or one listing, never by a thread that is evaluating; so every   *)
(* ::running and every ::kill that has begun returns, whatever number of   *)
(* queries are being evaluated and even if none of them ever finishes, and *)
(* every thread that is about to register its statement or to drop its     *)
(* guard gets the mutex and goes on: no interleaving of the four blocks.   *)
(***************************************************************************)
C28_RegistryNeverBlocks ==
    /\ [](Cardinality({u \in Threads : pc[u] \in Locked}) <= 1)
    /\ \A t \in Threads :
          /\ (pc[t] \in {"sys_kill", "sys_list"}) ~> (pc[t] = "done")
          /\ (pc[t] = "insert") ~> (pc[t] \in {"eval", "done"})
          /\ (pc[t] = "drop") ~> (pc[t] \notin {"drop", "drop_locked"})

\* ::running has returned the rows of two queries that are both in an
\* evaluation that does not end by itself.
C28_Witness ==
    /\ pc[Killer] = "done"
    /\ result[Killer].code = "ok"
    /\ Len(result[Killer].rows) = 2
    /\ \A t \in Callers : pc[t] = "eval" /\ endless[t] /\ ~flag[PoisonOf(t)]

\* C30: a poison that is set stays set: no step of a registration, of a
\* probe, of ::kill, of a timer or of a guard drop takes a flag from set to
\* unset.
C30_PoisonIsMonotone ==
    [][\A p \in PoisonRefs : flag[p] => flag'[p]]_vars

\* The timer of a statement has set its poison and ::kill that of another;
\* both run_script calls have returned since, the guards are dropped, and
\* both flags are still set.
C30_Witness ==
    \E p, r \in PoisonRefs :
        /\ p # r
        /\ timer[p] = "fired" /\ flag[p]
        /\ \E e \in registered : e[1] = r /\ e[2] \in killing
        /\ timer[r] = "none" /\ flag[r]
        /\ running_queries = <<>>
        /\ \A t \in Callers : pc[t] = "done"

\* The sequences of qs, one after the other.
RECURSIVE Concat(_)
Concat(qs) == IF qs = <<>> THEN <<>> ELSE Head(qs) \o Concat(Tail(qs))

\* The rules and the algorithms of a compiled program, in its order.
RulesInOrder(strata) ==
    Concat([i \in 1..Len(strata) |->
              Concat([j \in 1..Len(strata[i]) |->
                        IF strata[i][j].kind = "Rules"
                        THEN [k \in 1..Len(strata[i][j].rules) |->
                                [algo |-> FALSE, rule |-> strata[i][j].rules[k]]]
                        ELSE <<[algo |-> TRUE, rule |-> <<>>]>>])])

\* The rows of a table in blocks, each ending with a row that describes no
\* node.
RECURSIVE Blocks(_, _)
Blocks(rows, block) ==
    IF rows = <<>> THEN (IF block = <<>> THEN <<>> ELSE <<block>>)
    ELSE IF Head(rows).rel = None
    THEN <<Append(block, Head(rows))>> \o Blocks(Tail(rows), <<>>)
    ELSE Blocks(Tail(rows), Append(block, Head(rows)))

\* The paths to the nodes of the tree rel, which is at path itself.
RECURSIVE Paths(_, _)
Paths(rel, path) ==
    {path} \cup UNION {Paths(rel.kids[i], Append(path, i)) : i \in 1..Len(rel.kids)}

\* The node of the tree rel at path.
RECURSIVE NodeAt(_, _)
NodeAt(rel, path) == IF path = <<>> THEN rel ELSE NodeAt(rel.kids[Head(path)], Tail(path))

\* The node at path q is a descendant of the node at path p.
Descendant(q, p) == Len(p) < Len(q) /\ SubSeq(q, 1, Len(p)) = p

\* Thread t was given a compiled program and has its table.
Explained(t) == pc[t] = "done" /\ script[t].kind = "Explain"

(***************************************************************************)
(* C29: the table of a compiled program is one block of rows for each of   *)
(* its rules and algorithms, in their order. The last row of the block of  *)
(* a rule is its output row, of op out, aggr_out or meet_aggr_out, and the *)
(* only one; the rows before it describe, one each, the nodes of the tree  *)
(* of the rule other than unit fixed relations and joins whose left side   *)
(* is unit, which have no row; and the row of a node comes after the rows  *)
(* of all its descendants.                                                 *)
(***************************************************************************)
C29_DescendantsBeforeAncestors ==
    \A t \in Threads :
        Explained(t) =>
            LET rules == RulesInOrder(script[t].strata)
                blocks == Blocks(result[t].rows, <<>>)
                OutOps == {"out", "aggr_out", "meet_aggr_out"}
            IN  /\ Len(blocks) = Len(rules)
                /\ \A k \in 1..Len(rules) :
                      LET B == blocks[k]
                          n == Len(B) - 1
                          tree == rules[k].rule.relation
                      IN  IF rules[k].algo THEN n = 0 /\ B[1].op = "algo"
                          ELSE /\ B[n + 1].rel = None /\ B[n + 1].op \in OutOps
                               /\ \A i \in 1..n :
                                     /\ B[i].op \notin OutOps
                                     /\ B[i].op = NodeAt(tree, B[i].rel[1]).kind
                               /\ \A i, j \in 1..n :
                                     /\ i # j => B[i].rel # B[j].rel
                                     /\ Descendant(B[j].rel[1], B[i].rel[1]) => j < i
                               /\ {B[i].rel[1] : i \in 1..n} =
                                     {p \in Paths(tree, <<>>) :
                                         LET rel == NodeAt(tree, p)
                                         IN  /\ ~IsUnit(rel)
                                             /\ ~(rel.kind = "join" /\ IsUnit(rel.kids[1]))}

\* The tree of a rule is the neg_join of a join of unit with a stored
\* relation, and of a filter over a fixed relation: the rows are those of
\* the stored relation, the fixed relation, the filter, the neg_join and the
\* output, and the join and unit have none.
C29_Witness ==
    \E t \in Threads :
        /\ Explained(t)
        /\ script[t].strata[1][1].rules[1].relation =
              [kind |-> "neg_join", unit |-> FALSE,
               kids |-> <<[kind |-> "join", unit |-> FALSE,
                           kids |-> <<RelLeaf("fixed", TRUE), RelLeaf("load_stored", FALSE)>>],
                          [kind |-> "filter", unit |-> FALSE,
                           kids |-> <<RelLeaf("fixed", FALSE)>>]>>]
        /\ [i \in 1..Len(result[t].rows) |-> result[t].rows[i].op] =
              <<"load_stored", "fixed", "filter", "neg_join", "aggr_out">>

\* C31: the poison of a statement is its own: an evaluation is left with
\* eval::killed only if the timer of this very statement has fired or ::kill
\* has found the id of this very statement in its evaluation; when a statement
\* is registered its poison is unset unless its own timer has fired already,
\* whatever timers of earlier statements have fired and whatever guards have
\* been dropped.
C31_PoisonIsPerStatement ==
    [][\A t \in Callers :
         /\ (pc[t] = "eval" /\ pc'[t] = "drop"
                /\ pending'[t] = QueryErr("eval::killed")) =>
               \/ timer[PoisonOf(t)] = "fired"
               \/ qid[t] \in killing
         /\ (pc[t] = "insert" /\ pc'[t] = "eval" /\ flag'[PoisonOf(t)]) =>
               timer[PoisonOf(t)] = "fired"
      ]_vars

\* The timer of the first statement of a script has fired and its guard is
\* dropped; the second statement of the script, which has no timer, has gone
\* through its evaluation, and the script has returned its result.
C31_Witness ==
    \E t \in Callers :
        /\ timer[<<t, 1>>] = "fired" /\ flag[<<t, 1>>]
        /\ timer[<<t, 2>>] = "none"
        /\ \E e \in registered : e[1] = <<t, 2>>
        /\ pc[t] = "done" /\ result[t].code = "ok"

(***************************************************************************)
(* C32: the keys of the registry are exactly the ids of the statements     *)
(* that have been registered and whose run_query has not returned yet. A   *)
(* statement that fails in its pre-flight, in its compilation or in        *)
(* set_timeout has taken no id and has no entry, and a system op takes no  *)
(* id, inserts no entry and removes none.                                  *)
(***************************************************************************)
C32_RegistryIsTheGuardedStatements ==
    /\ [](DOMAIN running_queries =
             {e[2] : e \in {f \in registered :
                              Guarded(f[1][1]) /\ PoisonOf(f[1][1]) = f[1]}})
    /\ [][\A t \in Callers :
            /\ (pc[t] \in {"preflight", "compile"} /\ pc'[t] = "done") =>
                  /\ queries_count' = queries_count /\ allocated' = allocated
                  /\ running_queries' = running_queries /\ registered' = registered
                  /\ \A e \in registered : e[1] # PoisonOf(t)
            /\ (pc[t] \in {"sys_list", "sys_kill", "rm_open", "rm_destroy", "rm_commit",
                           "rm_cleanup"} /\ pc'[t] # pc[t]) =>
                  /\ queries_count' = queries_count /\ allocated' = allocated
                  /\ running_queries' = running_queries /\ registered' = registered
      ]_vars

\* One caller is in the evaluation of its second statement, the first
\* having returned, and its entry is the only one of the registry: the other
\* caller has failed in set_timeout, and only two ids have been taken.
C32_Witness ==
    /\ pc[1] = "eval" /\ idx[1] = 2
    /\ DOMAIN running_queries = {qid[1]}
    /\ result[2] = Err("set_timeout_error")
    /\ allocated = <<0, 1>>
    /\ Cardinality(registered) = 2

(***************************************************************************)
(* C33: the cleanup after the commit of a script or of ::remove gives its  *)
(* ranges to del_range one by one, and a range leaves the list only by     *)
(* being deleted. When del_range fails the invocation returns that error   *)
(* in the same step, with the store as it was: the failing range and the   *)
(* ranges after it are not deleted, then or later by this invocation, and  *)
(* the commit of the invocation stands.                                    *)
(***************************************************************************)
C33_CleanupStopsAtFirstFailure ==
    [][\A t \in Callers :
         /\ (pc[t] \in {"cleanup", "rm_cleanup"} /\ cleanups[t] # <<>>) =>
               /\ t \in committed /\ t \in committed'
               /\ del_calls'[t] # del_calls[t] =>
                     \/ /\ store' = DelRange(store, Head(cleanups[t]))
                        /\ cleanups'[t] = Tail(cleanups[t])
                        /\ pc'[t] = pc[t]
                     \/ /\ store' = store
                        /\ pc'[t] = "done"
                        /\ result'[t] = Err("del_range_error")
         /\ pc[t] = "done" => del_calls'[t] = del_calls[t] /\ result'[t] = result[t]
      ]_vars

\* A script has committed its writes, deleted its first range, failed on
\* the second and returned the error: its rows are in the store, and so are
\* rows of the range that was not deleted.
C33_Witness ==
    \E t \in Callers :
        /\ result[t] = Err("del_range_error")
        /\ del_calls[t] = 2
        /\ t \in committed /\ Wrote(t)
        /\ \E r \in store.rows : r[1] # store.cat

\* The failures of an assertion.
AssertFailures == {"eval::assert_none_failure", "eval::assert_some_failure"}

(***************************************************************************)
(* C34: a statement comes to its output, and with it to execute_relation,  *)
(* only from its assertion, and to its assertion only from its evaluation; *)
(* the session and the relation ids change only in the output. A statement *)
(* whose assertion fails returns the failure without having come to the    *)
(* output: the session is what it was after the evaluation, no relation id *)
(* is taken, no cleanup range is returned, and the script returns the      *)
(* failure with nothing committed and no range collected.                  *)
(***************************************************************************)
C34_AssertionBeforeExecuteRelation ==
    [][\A t \in Callers :
         /\ (pc'[t] = "assert" /\ pc[t] # "assert") => pc[t] = "eval"
         /\ (pc'[t] = "output" /\ pc[t] # "output") => pc[t] = "assert"
         /\ (InStatement(t) /\ (tx'[t] # tx[t] \/ relation_store_id' # relation_store_id)) =>
               \/ pc[t] = "output"
               \/ pc'[t] = "done"
               \/ \E u \in Callers \ {t} : pc[u] = "output" /\ tx'[t] = tx[t]
         /\ (pc[t] = "assert" /\ pc'[t] # "assert" /\ pc'[t] # "output") =>
               /\ pc'[t] = "drop"
               /\ pending'[t].res \in AssertFailures
               /\ pending'[t].clean_ups = <<>>
               /\ tx'[t] = tx[t] /\ relation_store_id' = relation_store_id
               /\ cleanups'[t] = cleanups[t] /\ store' = store
         /\ (pc[t] = "drop" /\ pending[t].res \in AssertFailures) =>
               /\ pc'[t] = "done" => /\ result'[t] = Err(pending[t].res)
                                     /\ store' = store /\ t \notin committed'
                                     /\ del_calls'[t] = 0
               /\ \A r \in ViewRows(tx[t], store) : r[2] # PoisonOf(t)
      ]_vars

\* The first statement of a script has replaced the relation in the session;
\* the assertion of the second, which would replace it again, has failed:
\* the session has the row of the first statement and none of the second.
C34_Witness ==
    \E t \in Callers :
        /\ pc[t] = "drop" /\ idx[t] = 2
        /\ script[t].ps = <<"Replace", "Replace">>
        /\ pending[t] = QueryErr("eval::assert_none_failure")
        /\ \E r \in ViewRows(tx[t], store) : r[2] = <<t, 1>>
        /\ \A r \in ViewRows(tx[t], store) : r[2] # <<t, 2>>
        /\ cleanups[t] # <<>>
====
